---- MODULE Spec2Model ----
(***************************************************************************)
(* Streaming completion fan-out core of the Freya agent console:           *)
(*   - session/message store      (server/db/session-store)                *)
(*   - broadcast hub              (server/stream/stream-hub)               *)
(*   - completion source adapter  (server/agent-client)                    *)
(*   - assistant run orchestrator (server/stream/assistant-runner)         *)
(*                                                                         *)
(* Conventions.  A string is a sequence of one-character strings, so that  *)
(* concatenation, trimming and tokenizing are computed.  An optional field *)
(* is a sequence of length <= 1: <<>> is undefined, <<v>> is the value v.  *)
(* An optional text is its string, undefined and "" both being <<>> (the   *)
(* code reads it through `text ?? ""` everywhere).  Timestamps are         *)
(* milliseconds.  Identifiers made by crypto.randomUUID() are fresh        *)
(* numbers.                                                                *)
(***************************************************************************)
EXTENDS Integers, Sequences, FiniteSets, TLC

VARIABLES
    sessions,     \* data.sessions : sequence of Session records
    messages,     \* data.messages : sequence of Message records
    writeQueue,   \* state of the writeQueue promise: "resolved" | "rejected"
    now,          \* the wall clock (Date.now()), in milliseconds; the
                  \* specifications below hold it still
    lastCall,     \* the last direct store call and what it returned
    socketConnections,   \* session id -> its sockets, in insertion order
    listenerConnections, \* session id -> its listeners, in insertion order
    readyState,   \* socket -> "NEW" (not yet created) | "OPEN" | "CLOSING" | "CLOSED"
    subscribed,   \* listener -> "NEW" (not yet created) | "ON" | "OFF"
    broadcastLog, \* session id -> the events broadcastEvent was called with
    lastBroadcast, \* the last broadcastEvent call and the deliveries it made,
                  \* kept for as long as the hub's membership is as it was then
    agentUrl,     \* env.AGENT_HTTP_URL is set
    gen,          \* run -> state of its streamAgentCompletion generator
    emitted,      \* run -> the events its generator has yielded, in order
    run,          \* run -> state of the POST handler and of the background task
    metrics,      \* the buffers messageMetrics and errorMetrics of the aggregator
    rateLimitStore, \* key -> timestamps of its entry ("no entry" is <<>>)
    rateCalls,    \* every consumeRateLimit call made: its key, time and outcome
    isLoaded,     \* the store's isLoaded flag
    file,         \* the data file: <<>> when missing, else <<its parsed content>>
    caller,       \* concurrent caller of the store -> where it is in mutate()
    persistQueue, \* the callers whose persist() is chained on writeQueue, in order
    oa,           \* state of a streamOpenAIResponse generator of the agent service
    oaOut,        \* the events that generator has yielded, in order
    diskWritable  \* fs.writeFile on the data file succeeds

storeVars == <<sessions, messages, writeQueue, now, lastCall>>
hubVars == <<socketConnections, listenerConnections, readyState, subscribed,
             broadcastLog, lastBroadcast>>

genVars == <<agentUrl, gen, emitted>>
runVars == <<run, metrics>>
rateVars == <<rateLimitStore, rateCalls>>
loadVars == <<isLoaded, file, caller, persistQueue>>
oaVars == <<oa, oaOut>>

vars == <<sessions, messages, writeQueue, now, lastCall,
          socketConnections, listenerConnections, readyState, subscribed,
          broadcastLog, lastBroadcast,
          agentUrl, gen, emitted, run, metrics, rateLimitStore, rateCalls,
          isLoaded, file, caller, persistQueue, oa, oaOut, diskWritable>>

----------------------------------------------------------------------------
(* Bounds of the model *)

MaxSessions == 1
MaxStoreMessages == 1
MaxTokens == 2
MaxBroadcasts == 2
MaxSamples == 3    \* samples recorded per metrics buffer
MaxTicks == 3      \* half days the clock of the aggregator advances
MaxRateCalls == 5  \* consumeRateLimit calls made
MaxLoadCalls == 3  \* store calls made by the concurrent callers
MaxReads == 2      \* reads of the model API's response that deliver a chunk
MaxChunk == 3      \* lines and block delimiters in one chunk
MaxHalfMinutes == 4    \* half minutes the clock of the limiter advances

\* The environment the limiter is checked in: env.RATE_LIMIT_MAX and
\* env.RATE_LIMIT_WINDOW_MIN are any positive integers
RATE_LIMIT_MAX == 2
RATE_LIMIT_WINDOW_MIN == 1

RateKeys == {"message:u1", "message:u2"}

\* Session and message ids callers may pass: the stored ones and one more
SessionIds == 1..(MaxSessions + 1)
MessageIds == 1..(MaxStoreMessages + 1)

Modes == {"chat", "voice", "hybrid"}
Tokens == {<<"a">>, <<"b", " ">>}
TimePoints == {0, 1000}
ErrorTexts == {"LLM unreachable"}
AudioUrls == {"data:audio"}

Undefined == <<>>
Some(v) == <<v>>
IsSet(opt) == opt # <<>>
Val(opt) == opt[1]

Max(a, b) == IF a >= b THEN a ELSE b

----------------------------------------------------------------------------
(* Session/message store *)

\* Faulty variant of findMessage: the session id is not compared
findMessageIdOnly(msgs, sessionId, messageId) ==
    LET hits == {i \in 1..Len(msgs) : msgs[i].id = messageId}
    IN IF hits = {} THEN 0 ELSE CHOOSE i \in hits : \A j \in hits : i <= j

\* Array.prototype.find with the predicate of the four message mutations:
\* index of the first message with this id AND this session id, 0 if none

findMessage(msgs, sessionId, messageId) ==
    LET hits == {i \in 1..Len(msgs) :
                    msgs[i].id = messageId /\ msgs[i].sessionId = sessionId}
    IN IF hits = {} THEN 0 ELSE CHOOSE i \in hits : \A j \in hits : i <= j

\* Faulty variant of toFixed2: the digits after the second are cut off
toFixed2Truncate(num, den) == (100 * num) \div den

\* Number(x.toFixed(2)) of num/den, in hundredths (round half up)
toFixed2(num, den) == (2 * 100 * num + den) \div (2 * den)

newSession(id, mode, at) ==
    [id |-> id, mode |-> mode, startedAt |-> at, endedAt |-> Undefined]

newUserMessage(id, sessionId, text, audioUrl, at) ==
    [id |-> id, sessionId |-> sessionId, role |-> "user", text |-> text,
     audioUrl |-> audioUrl, createdAt |-> at, firstTokenAt |-> Undefined,
     lastTokenAt |-> Undefined, tokenCount |-> Undefined,
     tokenRate |-> Undefined, error |-> Undefined]

newAssistantMessage(id, sessionId, at) ==
    [id |-> id, sessionId |-> sessionId, role |-> "assistant", text |-> <<>>,
     audioUrl |-> Undefined, createdAt |-> at, firstTokenAt |-> Undefined,
     lastTokenAt |-> Undefined, tokenCount |-> Undefined,
     tokenRate |-> Undefined, error |-> Undefined]

\* Faulty variant of appendAssistantToken: firstTokenAt is written by every
\* call
appendAssistantTokenFirstAtAlways(msgs, sessionId, messageId, token, at) ==
    LET i == findMessage(msgs, sessionId, messageId) IN
    IF i = 0 THEN [messages |-> msgs, result |-> Undefined]
    ELSE LET m == msgs[i]
             m2 == [m EXCEPT
                      !.text = m.text \o token,
                      !.tokenCount =
                          Some((IF IsSet(m.tokenCount) THEN Val(m.tokenCount) ELSE 0) + 1),
                      !.lastTokenAt = Some(at),
                      !.firstTokenAt = Some(at)]
         IN [messages |-> [msgs EXCEPT ![i] = m2], result |-> Some(m2)]

\* Faulty variant of appendAssistantToken: tokenCount ?? 0 + 1, which is
\* tokenCount ?? 1
appendAssistantTokenPrecedence(msgs, sessionId, messageId, token, at) ==
    LET i == findMessage(msgs, sessionId, messageId) IN
    IF i = 0 THEN [messages |-> msgs, result |-> Undefined]
    ELSE LET m == msgs[i]
             m2 == [m EXCEPT
                      !.text = m.text \o token,
                      !.tokenCount = IF IsSet(m.tokenCount) THEN m.tokenCount ELSE Some(1),
                      !.lastTokenAt = Some(at),
                      !.firstTokenAt =
                          IF IsSet(m.firstTokenAt) THEN m.firstTokenAt ELSE Some(at)]
         IN [messages |-> [msgs EXCEPT ![i] = m2], result |-> Some(m2)]

\* The callbacks handed to mutate(): each maps data.messages to the new
\* data.messages and the value returned (<<>> is null, else a copy)
appendAssistantToken(msgs, sessionId, messageId, token, at) ==
    LET i == findMessage(msgs, sessionId, messageId) IN
    IF i = 0 THEN [messages |-> msgs, result |-> Undefined]
    ELSE LET m == msgs[i]
             m2 == [m EXCEPT
                      !.text = m.text \o token,
                      !.tokenCount =
                          Some((IF IsSet(m.tokenCount) THEN Val(m.tokenCount) ELSE 0) + 1),
                      !.lastTokenAt = Some(at),
                      !.firstTokenAt =
                          IF IsSet(m.firstTokenAt) THEN m.firstTokenAt ELSE Some(at)]
         IN [messages |-> [msgs EXCEPT ![i] = m2], result |-> Some(m2)]

\* Faulty variant of finalizeAssistantMessage: the finalized message starts
\* from a clean error field
finalizeAssistantMessageClearsError(msgs, sessionId, messageId, completedAt) ==
    LET i == findMessage(msgs, sessionId, messageId) IN
    IF i = 0 THEN [messages |-> msgs, result |-> Undefined]
    ELSE LET m == msgs[i]
             hasRate == /\ IsSet(m.firstTokenAt)
                        /\ IsSet(m.tokenCount)
                        /\ Val(m.tokenCount) > 0
             durationMs == completedAt - Val(m.firstTokenAt)
             rate == toFixed2(Val(m.tokenCount) * 1000, Max(durationMs, 1))
             m2 == [m EXCEPT
                      !.lastTokenAt = Some(completedAt),
                      !.error = Undefined,
                      !.tokenRate = IF hasRate THEN Some(rate) ELSE m.tokenRate]
         IN [messages |-> [msgs EXCEPT ![i] = m2], result |-> Some(m2)]

finalizeAssistantMessage(msgs, sessionId, messageId, completedAt) ==
    LET i == findMessage(msgs, sessionId, messageId) IN
    IF i = 0 THEN [messages |-> msgs, result |-> Undefined]
    ELSE LET m == msgs[i]
             hasRate == /\ IsSet(m.firstTokenAt)
                        /\ IsSet(m.tokenCount)
                        /\ Val(m.tokenCount) > 0
             durationMs == completedAt - Val(m.firstTokenAt)
             \* tokenCount / max(durationMs / 1000, 0.001)
             rate == toFixed2(Val(m.tokenCount) * 1000, Max(durationMs, 1))
             m2 == [m EXCEPT
                      !.lastTokenAt = Some(completedAt),
                      !.tokenRate = IF hasRate THEN Some(rate) ELSE m.tokenRate]
         IN [messages |-> [msgs EXCEPT ![i] = m2], result |-> Some(m2)]

attachMessageAudio(msgs, sessionId, messageId, audioUrl) ==
    LET i == findMessage(msgs, sessionId, messageId) IN
    IF i = 0 THEN [messages |-> msgs, result |-> Undefined]
    ELSE LET m2 == [msgs[i] EXCEPT !.audioUrl = Some(audioUrl)]
         IN [messages |-> [msgs EXCEPT ![i] = m2], result |-> Some(m2)]

recordMessageError(msgs, sessionId, messageId, error, at) ==
    LET i == findMessage(msgs, sessionId, messageId) IN
    IF i = 0 THEN [messages |-> msgs, result |-> Undefined]
    ELSE LET m2 == [msgs[i] EXCEPT !.error = Some(error), !.lastTokenAt = Some(at)]
         IN [messages |-> [msgs EXCEPT ![i] = m2], result |-> Some(m2)]

\* getSessionMessages: the session's messages, a stable sort by createdAt
RECURSIVE sortByCreatedAt(_)
sortByCreatedAt(msgs) ==
    IF msgs = <<>> THEN <<>>
    ELSE LET lo == CHOOSE i \in 1..Len(msgs) :
                     \A j \in 1..Len(msgs) :
                        \/ msgs[i].createdAt < msgs[j].createdAt
                        \/ (msgs[i].createdAt = msgs[j].createdAt /\ i <= j)
             rest == [k \in 1..(Len(msgs) - 1) |->
                        IF k < lo THEN msgs[k] ELSE msgs[k + 1]]
         IN <<msgs[lo]>> \o sortByCreatedAt(rest)

getSessionMessages(msgs, sessionId) ==
    sortByCreatedAt(SelectSeq(msgs, LAMBDA m : m.sessionId = sessionId))

getSession(sess, sessionId) ==
    LET hits == {i \in 1..Len(sess) : sess[i].id = sessionId}
    IN IF hits = {} THEN Undefined ELSE Some(sess[CHOOSE i \in hits : TRUE])

----------------------------------------------------------------------------
(* Direct calls of the store (route handlers, tests) *)

\* What is remembered of the last call: the operation, whether the store held
\* a message with the id passed (idStored) and one with the id and the session
\* id passed (known) when it was made, and what it returned
StoreCall(op, sessionId, messageId, before, result) ==
    [op |-> op,
     idStored |-> \E i \in 1..Len(before) : before[i].id = messageId,
     known |-> \E i \in 1..Len(before) :
                  before[i].id = messageId /\ before[i].sessionId = sessionId,
     returned |-> IF result = Undefined THEN "null" ELSE "message"]

NoCall ==
    [op |-> "none", idStored |-> FALSE, known |-> FALSE, returned |-> "null"]

CallCreateSessionRecord ==
    /\ Len(sessions) < MaxSessions
    /\ \E mode \in Modes :
          sessions' = Append(sessions, newSession(Len(sessions) + 1, mode, now))
    /\ lastCall' = [NoCall EXCEPT !.op = "createSessionRecord", !.returned = "session"]
    /\ UNCHANGED <<messages, writeQueue, now, hubVars, genVars, runVars, rateVars, loadVars, oaVars, diskWritable>>

CallAddUserMessage ==
    /\ Len(messages) < MaxStoreMessages
    /\ \E s \in SessionIds, text \in {<<>>, <<"u">>} :
          LET audio == IF text = <<>> THEN Some("data:audio") ELSE Undefined
              m == newUserMessage(Len(messages) + 1, s, text, audio, now)
          IN /\ messages' = Append(messages, m)
             /\ lastCall' = StoreCall("addUserMessage", s, m.id, messages, Some(m))
    /\ UNCHANGED <<sessions, writeQueue, now, hubVars, genVars, runVars, rateVars, loadVars, oaVars, diskWritable>>

CallCreateAssistantMessage ==
    /\ Len(messages) < MaxStoreMessages
    /\ \E s \in SessionIds :
          LET m == newAssistantMessage(Len(messages) + 1, s, now)
          IN /\ messages' = Append(messages, m)
             /\ lastCall' = StoreCall("createAssistantMessage", s, m.id, messages, Some(m))
    /\ UNCHANGED <<sessions, writeQueue, now, hubVars, genVars, runVars, rateVars, loadVars, oaVars, diskWritable>>

CallAppendAssistantToken ==
    /\ \E s \in SessionIds, id \in MessageIds, token \in Tokens, at \in TimePoints :
          LET r == appendAssistantToken(messages, s, id, token, at)
          IN /\ \A i \in 1..Len(r.messages) :
                   IsSet(r.messages[i].tokenCount)
                       => Val(r.messages[i].tokenCount) <= MaxTokens
             /\ messages' = r.messages
             /\ lastCall' = StoreCall("appendAssistantToken", s, id, messages, r.result)
    /\ UNCHANGED <<sessions, writeQueue, now, hubVars, genVars, runVars, rateVars, loadVars, oaVars, diskWritable>>

CallFinalizeAssistantMessage ==
    /\ \E s \in SessionIds, id \in MessageIds, completedAt \in TimePoints :
          LET r == finalizeAssistantMessage(messages, s, id, completedAt)
          IN /\ messages' = r.messages
             /\ lastCall' = StoreCall("finalizeAssistantMessage", s, id, messages, r.result)
    /\ UNCHANGED <<sessions, writeQueue, now, hubVars, genVars, runVars, rateVars, loadVars, oaVars, diskWritable>>

CallAttachMessageAudio ==
    /\ \E s \in SessionIds, id \in MessageIds, url \in AudioUrls :
          LET r == attachMessageAudio(messages, s, id, url)
          IN /\ messages' = r.messages
             /\ lastCall' = StoreCall("attachMessageAudio", s, id, messages, r.result)
    /\ UNCHANGED <<sessions, writeQueue, now, hubVars, genVars, runVars, rateVars, loadVars, oaVars, diskWritable>>

CallRecordMessageError ==
    /\ \E s \in SessionIds, id \in MessageIds, error \in ErrorTexts :
          LET r == recordMessageError(messages, s, id, error, now)
          IN /\ messages' = r.messages
             /\ lastCall' = StoreCall("recordMessageError", s, id, messages, r.result)
    /\ UNCHANGED <<sessions, writeQueue, now, hubVars, genVars, runVars, rateVars, loadVars, oaVars, diskWritable>>

StoreInit ==
    /\ sessions = <<>>
    /\ messages = <<>>
    /\ writeQueue = "resolved"
    /\ now = 0
    /\ lastCall = NoCall

\* What a call hands to its caller: the object it pushed into data (`return
\* session`, `return message`) or a copy of the stored one (`{ ...message }`)
returnsStoredObject(op) ==
    op \in {"createSessionRecord", "addUserMessage", "createAssistantMessage"}

\* The caller of the last call assigns a field of the value it was handed
\* (endedAt of a session, text of a message).  A stored object is the last
\* one of its array, where the call pushed it.
CallerWritesReturned ==
    /\ lastCall.op \notin {"none", "callerWrite"}
    /\ lastCall.returned # "null"
    /\ IF ~returnsStoredObject(lastCall.op)
       THEN UNCHANGED <<sessions, messages>>
       ELSE IF lastCall.op = "createSessionRecord"
       THEN /\ sessions' = [sessions EXCEPT ![Len(sessions)].endedAt = Some(now)]
            /\ UNCHANGED messages
       ELSE /\ messages' = [messages EXCEPT ![Len(messages)].text = <<"!">>]
            /\ UNCHANGED sessions
    /\ lastCall' = [lastCall EXCEPT !.op = "callerWrite"]
    /\ UNCHANGED <<writeQueue, now, hubVars, genVars, runVars, rateVars, loadVars,
                   oaVars, diskWritable>>

StoreNext ==
    \/ CallCreateSessionRecord
    \/ CallAddUserMessage
    \/ CallCreateAssistantMessage
    \/ CallAppendAssistantToken
    \/ CallFinalizeAssistantMessage
    \/ CallAttachMessageAudio
    \/ CallRecordMessageError


----------------------------------------------------------------------------
(* mutate() step by step: ensureLoaded, the callback, the chained persist.
   Concurrent callers are at their awaits; what runs between two awaits is
   one step.  The specifications other than SpecLoad start with the store
   loaded and idle callers, and do not follow the data file. *)

LoadCallers == {"c1", "c2"}
LoadOps == {"createSessionRecord", "appendAssistantToken"}

IdleCaller ==
    [pc |-> "idle", op |-> "none", calls |-> 0, id |-> 0, buf |-> Undefined,
     result |-> "none", created |-> {}, appended |-> 0]

LoadedInit ==
    /\ isLoaded = TRUE
    /\ file = Some([sessions |-> <<>>, messages |-> <<>>])
    /\ caller = [c \in LoadCallers |-> IdleCaller]
    /\ persistQueue = <<>>

\* The calls started so far; crypto.randomUUID() of a call is a fresh number
CallsStarted == caller["c1"].calls + caller["c2"].calls

\* A caller enters mutate(): ensureLoaded returns at once when isLoaded, and
\* calls fs.readFile otherwise
EnterMutate(c) ==
    /\ caller[c].pc \in {"idle", "returned"}
    /\ CallsStarted < MaxLoadCalls
    /\ \E op \in LoadOps :
          caller' = [caller EXCEPT ![c] =
              [@ EXCEPT !.pc = IF isLoaded THEN "loaded" ELSE "reading",
                        !.op = op,
                        !.calls = @ + 1,
                        !.id = 10 + CallsStarted + 1,
                        !.buf = Undefined]]
    /\ UNCHANGED <<storeVars, hubVars, genVars, runVars, rateVars,
                   isLoaded, file, persistQueue, oaVars, diskWritable>>

\* fs.readFile reads the file as it is at some moment before it resolves;
\* a missing file is ENOENT
ReadFile(c) ==
    /\ caller[c].pc = "reading"
    /\ caller' = [caller EXCEPT ![c] =
          [@ EXCEPT !.pc = IF file = Undefined THEN "enoent" ELSE "read",
                    !.buf = file]]
    /\ UNCHANGED <<storeVars, hubVars, genVars, runVars, rateVars,
                   isLoaded, file, persistQueue, oaVars, diskWritable>>

\* readFile has resolved: data = JSON.parse(fileContent); isLoaded = true
ParseFile(c) ==
    /\ caller[c].pc = "read"
    /\ sessions' = Val(caller[c].buf).sessions
    /\ messages' = Val(caller[c].buf).messages
    /\ isLoaded' = TRUE
    /\ caller' = [caller EXCEPT ![c] = [@ EXCEPT !.pc = "loaded", !.buf = Undefined]]
    /\ UNCHANGED <<writeQueue, now, lastCall, hubVars, genVars, runVars, rateVars,
                   file, persistQueue, oaVars, diskWritable>>

\* ENOENT: await persist(), outside the writeQueue; isLoaded = true
PersistMissing(c) ==
    /\ caller[c].pc = "enoent"
    /\ file' = Some([sessions |-> sessions, messages |-> messages])
    /\ isLoaded' = TRUE
    /\ caller' = [caller EXCEPT ![c].pc = "loaded"]
    /\ UNCHANGED <<storeVars, hubVars, genVars, runVars, rateVars, persistQueue, oaVars, diskWritable>>

\* const result = fn(data); writeQueue = writeQueue.then(() => persist())
ApplyFn(c) ==
    /\ caller[c].pc = "loaded"
    /\ IF caller[c].op = "createSessionRecord"
       THEN /\ sessions' = Append(sessions, newSession(caller[c].id, "chat", now))
            /\ caller' = [caller EXCEPT ![c] =
                  [@ EXCEPT !.pc = "queued", !.result = "session"]]
            /\ UNCHANGED messages
       ELSE LET r == appendAssistantToken(messages, 1, 1, <<"a">>, now)
            IN /\ messages' = r.messages
               /\ caller' = [caller EXCEPT ![c] =
                     [@ EXCEPT !.pc = "queued",
                               !.result = IF r.result = Undefined THEN "null"
                                          ELSE "message"]]
               /\ UNCHANGED sessions
    /\ persistQueue' = Append(persistQueue, c)
    /\ UNCHANGED <<writeQueue, now, lastCall, hubVars, genVars, runVars, rateVars,
                   isLoaded, file, oaVars, diskWritable>>

\* The caller's persist() on the writeQueue: fs.writeFile of data as it is
\* now; await writeQueue resolves and mutate returns
PersistQueued(c) ==
    /\ caller[c].pc = "queued"
    /\ persistQueue # <<>> /\ Head(persistQueue) = c
    /\ file' = Some([sessions |-> sessions, messages |-> messages])
    /\ persistQueue' = Tail(persistQueue)
    /\ caller' = [caller EXCEPT ![c] =
          [@ EXCEPT !.pc = "returned",
                    !.created = IF caller[c].result = "session"
                                THEN @ \cup {caller[c].id} ELSE @,
                    !.appended = IF caller[c].result = "message" THEN @ + 1 ELSE @]]
    /\ UNCHANGED <<storeVars, hubVars, genVars, runVars, rateVars, isLoaded, oaVars, diskWritable>>

----------------------------------------------------------------------------
(* Broadcast hub *)

Sockets == {"k1", "k2"}
Listeners == {"l1", "l2"}
HubSessions == {1, 2}

Range(seq) == {seq[i] : i \in 1..Len(seq)}
Remove(seq, x) == SelectSeq(seq, LAMBDA y : y # x)

\* Faulty variant of sendToSockets: readyState is not looked at
RECURSIVE sendToSocketsNoOpenCheck(_, _, _)
sendToSocketsNoOpenCheck(socks, state, failing) ==
    IF socks = <<>> THEN [sent |-> <<>>, threw |-> FALSE]
    ELSE LET k == Head(socks) IN
         IF k \in failing THEN [sent |-> <<>>, threw |-> TRUE]
         ELSE LET rest == sendToSocketsNoOpenCheck(Tail(socks), state, failing)
              IN [sent |-> <<k>> \o rest.sent, threw |-> rest.threw]

\* Faulty variant of sendToSockets: the loop ends after the first send
RECURSIVE sendToSocketsFirstOnly(_, _, _)
sendToSocketsFirstOnly(socks, state, failing) ==
    IF socks = <<>> THEN [sent |-> <<>>, threw |-> FALSE]
    ELSE LET k == Head(socks) IN
         IF state[k] # "OPEN" THEN sendToSocketsFirstOnly(Tail(socks), state, failing)
         ELSE IF k \in failing THEN [sent |-> <<>>, threw |-> TRUE]
         ELSE [sent |-> <<k>>, threw |-> FALSE]

\* The for..of loop over the session's sockets: a socket that is OPEN is
\* sent the payload, any other is skipped.  `failing` are the sockets whose
\* send() throws: the loop has no try/catch, so the first of them ends it.
RECURSIVE sendToSockets(_, _, _)
sendToSockets(socks, state, failing) ==
    IF socks = <<>> THEN [sent |-> <<>>, threw |-> FALSE]
    ELSE LET k == Head(socks) IN
         IF state[k] # "OPEN" THEN sendToSockets(Tail(socks), state, failing)
         ELSE IF k \in failing THEN [sent |-> <<>>, threw |-> TRUE]
         ELSE LET rest == sendToSockets(Tail(socks), state, failing)
              IN [sent |-> <<k>> \o rest.sent, threw |-> rest.threw]

\* Faulty variant of callListeners: no try/catch around the call
RECURSIVE callListenersNoCatch(_, _)
callListenersNoCatch(lsts, throwers) ==
    IF lsts = <<>> THEN [called |-> <<>>, threw |-> FALSE]
    ELSE LET l == Head(lsts) IN
         IF l \in throwers THEN [called |-> <<l>>, threw |-> TRUE]
         ELSE LET rest == callListenersNoCatch(Tail(lsts), throwers)
              IN [called |-> <<l>> \o rest.called, threw |-> rest.threw]

\* The for..of loop over the session's listeners: each is called inside
\* try/catch, so a listener that throws (`throwers`) is logged and the loop
\* goes on.
RECURSIVE callListeners(_, _)
callListeners(lsts, throwers) ==
    IF lsts = <<>> THEN [called |-> <<>>, threw |-> FALSE]
    ELSE LET rest == callListeners(Tail(lsts), throwers)
         IN [called |-> <<Head(lsts)>> \o rest.called, threw |-> rest.threw]

\* broadcastEvent(sessionId, event): who is handed the event, in call
\* order, and whether the call throws
broadcastEvent(sessionId, event, failing, throwers) ==
    LET s == sendToSockets(socketConnections[sessionId], readyState, failing)
        l == IF s.threw THEN [called |-> <<>>, threw |-> FALSE]
             ELSE callListeners(listenerConnections[sessionId], throwers)
    IN [delivered |-> s.sent \o l.called, threw |-> s.threw \/ l.threw]

NoBroadcast ==
    [sessionId |-> 0, event |-> <<>>, delivered |-> <<>>, throwers |-> {},
     outcome |-> "none"]

\* The effect of one broadcastEvent call on the hub's variables
Broadcast(sessionId, event, failing, throwers) ==
    LET b == broadcastEvent(sessionId, event, failing, throwers) IN
    /\ broadcastLog' = [broadcastLog EXCEPT ![sessionId] = Append(@, event)]
    /\ lastBroadcast' = [sessionId |-> sessionId, event |-> <<event>>,
                         delivered |-> b.delivered, throwers |-> throwers,
                         outcome |-> IF b.threw THEN "threw" ELSE "returned"]
    /\ UNCHANGED <<socketConnections, listenerConnections, readyState, subscribed>>

\* attachWebSocket, called by the WebSocket route with a fresh server socket
AttachWebSocket(sessionId, k) ==
    /\ readyState[k] = "NEW"
    /\ readyState' = [readyState EXCEPT ![k] = "OPEN"]
    /\ socketConnections' =
           [socketConnections EXCEPT ![sessionId] =
               IF k \in Range(@) THEN @ ELSE Append(@, k)]
    /\ lastBroadcast' = NoBroadcast
    /\ UNCHANGED <<listenerConnections, subscribed, broadcastLog>>

\* The socket starts closing: it stays in the hub until its close event
SocketClosing(k) ==
    /\ readyState[k] = "OPEN"
    /\ readyState' = [readyState EXCEPT ![k] = "CLOSING"]
    /\ lastBroadcast' = NoBroadcast
    /\ UNCHANGED <<socketConnections, listenerConnections, subscribed, broadcastLog>>

\* detachWebSocket(sessionId, socket)
detachWebSocket(conns, sessionId, k) ==
    [conns EXCEPT ![sessionId] = Remove(@, k)]

\* The socket's close or error event: the route's handler detaches it from
\* the session it was attached to
SocketClosed(k) ==
    /\ readyState[k] \in {"OPEN", "CLOSING"}
    /\ readyState' = [readyState EXCEPT ![k] = "CLOSED"]
    /\ \E sessionId \in HubSessions :
          /\ k \in Range(socketConnections[sessionId])
          /\ socketConnections' = detachWebSocket(socketConnections, sessionId, k)
    /\ lastBroadcast' = NoBroadcast
    /\ UNCHANGED <<listenerConnections, subscribed, broadcastLog>>

\* subscribe(sessionId, listener), called by the SSE route's stream start
Subscribe(sessionId, l) ==
    /\ subscribed[l] = "NEW"
    /\ subscribed' = [subscribed EXCEPT ![l] = "ON"]
    /\ listenerConnections' =
           [listenerConnections EXCEPT ![sessionId] =
               IF l \in Range(@) THEN @ ELSE Append(@, l)]
    /\ lastBroadcast' = NoBroadcast
    /\ UNCHANGED <<socketConnections, readyState, broadcastLog>>

\* The function subscribe() returned, called by the SSE route's cleanup on
\* request abort or stream cancel
Unsubscribe(l) ==
    /\ subscribed[l] = "ON"
    /\ subscribed' = [subscribed EXCEPT ![l] = "OFF"]
    /\ \E sessionId \in HubSessions :
          /\ l \in Range(listenerConnections[sessionId])
          /\ listenerConnections' =
                 [listenerConnections EXCEPT ![sessionId] = Remove(@, l)]
    /\ lastBroadcast' = NoBroadcast
    /\ UNCHANGED <<socketConnections, readyState, broadcastLog>>

HubEvent(n) == [type |-> "assistant_token", messageId |-> 0, token |-> <<"t", n>>]

\* A caller broadcasts the next event to a session; some listeners throw
CallBroadcastEvent ==
    /\ Len(broadcastLog[1]) + Len(broadcastLog[2]) < MaxBroadcasts
    /\ \E sessionId \in HubSessions :
       \E throwers \in SUBSET Range(listenerConnections[sessionId]) :
          Broadcast(sessionId,
                    HubEvent(Len(broadcastLog[1]) + Len(broadcastLog[2]) + 1),
                    {}, throwers)
    /\ UNCHANGED <<storeVars, genVars, runVars, rateVars, loadVars, oaVars, diskWritable>>

HubInit ==
    /\ socketConnections = [s \in HubSessions |-> <<>>]
    /\ listenerConnections = [s \in HubSessions |-> <<>>]
    /\ readyState = [k \in Sockets |-> "NEW"]
    /\ subscribed = [l \in Listeners |-> "NEW"]
    /\ broadcastLog = [s \in HubSessions |-> <<>>]
    /\ lastBroadcast = NoBroadcast


----------------------------------------------------------------------------
(* Completion source adapter: streamAgentCompletion *)

MaxRuns == 1
MaxLines == 2

Runs == 1..MaxRuns

IsSpace(c) == c = " "

\* String.prototype.trim
RECURSIVE trimStart(_)
trimStart(str) ==
    IF str # <<>> /\ IsSpace(Head(str)) THEN trimStart(Tail(str)) ELSE str

RECURSIVE trimEnd(_)
trimEnd(str) ==
    IF str # <<>> /\ IsSpace(str[Len(str)])
    THEN trimEnd(SubSeq(str, 1, Len(str) - 1)) ELSE str

trim(str) == trimEnd(trimStart(str))

\* Array.prototype.join
RECURSIVE join(_, _)
join(parts, sep) ==
    IF parts = <<>> THEN <<>>
    ELSE IF Len(parts) = 1 THEN parts[1]
    ELSE parts[1] \o sep \o join(Tail(parts), sep)

\* text.split(/(\s+)/).filter(Boolean): the maximal runs of whitespace and
\* of non-whitespace, in order
RECURSIVE tokenize(_)
tokenize(text) ==
    IF text = <<>> THEN <<>>
    ELSE LET sp == IsSpace(Head(text))
             ends == {n \in 1..Len(text) :
                         /\ \A i \in 1..n : IsSpace(text[i]) = sp
                         /\ (n = Len(text) \/ IsSpace(text[n + 1]) # sp)}
             n == CHOOSE m \in ends : TRUE
         IN <<SubSeq(text, 1, n)>> \o tokenize(SubSeq(text, n + 1, Len(text)))

\* generateFallbackResponse: six parts joined by a space, two of them
\* empty.  Each fixed sentence of the source is shortened to one word.
PromptTitle == <<"T">>

generateFallbackResponse(userMessage) ==
    join(<< <<"H">> \o PromptTitle,
            IF userMessage # <<>> THEN <<"R">> \o userMessage ELSE <<"I">>,
            <<>>,
            <<"A">>,
            <<>>,
            <<"N">> >>, <<" ">>)

\* Completion events.  run is the run the event belongs to (for token and
\* done events the source carries it as data.messageId); token is the token
\* text; total is data.totalTokens.
TokenEvent(r, token) ==
    [type |-> "assistant_token", run |-> r, token |-> token, total |-> 0]
DoneEvent(r, total) ==
    [type |-> "assistant_done", run |-> r, token |-> <<>>, total |-> total]
ErrorEvent(r) ==
    [type |-> "error", run |-> r, token |-> <<>>, total |-> 0]
DegradedEvent(r) ==
    [type |-> "degraded", run |-> r, token |-> <<>>, total |-> 0]
AudioEvent(r) ==
    [type |-> "assistant_audio", run |-> r, token |-> <<>>, total |-> 0]

\* The generator before its first next().  userMessage is the content of
\* the last user turn of params.messages (<<>> if there is none); fetch
\* records how the fetch of the agent service went ("none" until it is made).
newGenerator(userMessage) ==
    [phase |-> "start", fetch |-> "none", lines |-> 0, tokenCount |-> 0,
     completionSent |-> FALSE, malformed |-> FALSE, pending |-> <<>>,
     userMessage |-> userMessage]

\* What the upstream may do when the generator waits for it
UpstreamTokens == {<<"a">>, <<" ">>}

UpstreamInputs(g) ==
    IF g.phase = "start" /\ agentUrl
        THEN {[kind |-> k, token |-> <<>>] : k \in {"fetch_ok", "fetch_failed"}}
    ELSE IF g.phase = "primary"
        THEN {[kind |-> k, token |-> <<>>] : k \in {"end", "read_failed"}}
             \cup (IF g.lines < MaxLines
                   THEN {[kind |-> k, token |-> <<>>] : k \in {"done", "error", "malformed"}}
                        \cup {[kind |-> "token", token |-> t] : t \in UpstreamTokens}
                   ELSE {})
    ELSE {[kind |-> "none", token |-> <<>>]}

\* Faulty variant of fallbackStream: no assistant_done after the tokens
fallbackStreamSkipsDone(r, g) ==
    IF g.phase = "fallback" /\ g.pending # <<>>
    THEN [gen |-> [g EXCEPT !.pending = Tail(@), !.tokenCount = @ + 1],
          out |-> <<TokenEvent(r, Head(g.pending))>>]
    ELSE [gen |-> [g EXCEPT !.phase = "finished"], out |-> <<>>]

\* fallbackStream, one next(): the next token of the canned reply, then
\* assistant_done with the emitted count, then the end
fallbackStream(r, g) ==
    IF g.phase = "fallback" /\ g.pending # <<>>
    THEN [gen |-> [g EXCEPT !.pending = Tail(@), !.tokenCount = @ + 1],
          out |-> <<TokenEvent(r, Head(g.pending))>>]
    ELSE IF g.phase = "fallback"
    THEN [gen |-> [g EXCEPT !.phase = "fallbackDone"],
          out |-> <<DoneEvent(r, g.tokenCount)>>]
    ELSE [gen |-> [g EXCEPT !.phase = "finished"], out |-> <<>>]

startFallback(g) ==
    [g EXCEPT !.phase = "fallback", !.tokenCount = 0,
              !.pending = tokenize(generateFallbackResponse(g.userMessage))]

\* Faulty variant of degraded: the fallback starts with no notice
degradedNoEvent(r, g) ==
    [gen |-> startFallback(g), out |-> <<>>]

\* The catch of streamAgentCompletion: one degraded event, fallback next
degraded(r, g) ==
    [gen |-> startFallback(g), out |-> <<DegradedEvent(r)>>]

\* fetchFromAgentService, one line of the response (or its end)
fetchFromAgentService(r, g, input) ==
    CASE input.kind = "token" ->
            [gen |-> [g EXCEPT !.lines = @ + 1, !.tokenCount = @ + 1],
             out |-> <<TokenEvent(r, input.token)>>]
      [] input.kind = "done" ->
            [gen |-> [g EXCEPT !.lines = @ + 1, !.completionSent = TRUE],
             out |-> <<DoneEvent(r, g.tokenCount)>>]
      [] input.kind = "error" ->
            [gen |-> [g EXCEPT !.lines = @ + 1], out |-> <<ErrorEvent(r)>>]
      [] input.kind = "end" ->
            IF g.completionSent
            THEN [gen |-> [g EXCEPT !.phase = "finished"], out |-> <<>>]
            ELSE [gen |-> [g EXCEPT !.phase = "primaryDone"],
                  out |-> <<DoneEvent(r, g.tokenCount)>>]
      \* JSON.parse(line) throws on a malformed line: the generator ends with
      \* that exception
      [] input.kind = "malformed" ->
            degraded(r, [g EXCEPT !.lines = @ + 1, !.malformed = TRUE])
      \* reader.read() throws on a broken connection
      [] OTHER -> degraded(r, g)

\* streamAgentCompletion, one next() of the generator: the event it yields
\* (out is <<>> when the step yields none) and its next state
streamAgentCompletion(r, g, input) ==
    CASE g.phase = "start" /\ ~agentUrl -> fallbackStream(r, startFallback(g))
      [] g.phase = "start" /\ input.kind = "fetch_ok" ->
            [gen |-> [g EXCEPT !.phase = "primary", !.fetch = "ok"], out |-> <<>>]
      [] g.phase = "start" -> degraded(r, [g EXCEPT !.fetch = "raised"])
      [] g.phase = "primary" -> fetchFromAgentService(r, g, input)
      [] g.phase = "primaryDone" ->
            [gen |-> [g EXCEPT !.phase = "finished"], out |-> <<>>]
      [] OTHER -> fallbackStream(r, g)

\* A consumer pulls the generator of run r once
GeneratorNext(r) ==
    /\ gen[r].phase # "finished"
    /\ \E input \in UpstreamInputs(gen[r]) :
          LET step == streamAgentCompletion(r, gen[r], input)
          IN /\ gen' = [gen EXCEPT ![r] = step.gen]
             /\ emitted' = [emitted EXCEPT ![r] = @ \o step.out]
    /\ UNCHANGED <<agentUrl, storeVars, hubVars, runVars, rateVars, loadVars, oaVars, diskWritable>>

\* No run has started: no generator has been made
GenIdle ==
    /\ agentUrl = FALSE
    /\ gen = [r \in Runs |-> newGenerator(<<>>)]
    /\ emitted = [r \in Runs |-> <<>>]

\* One generator is made, for run 1, with or without a last user turn
GenInit ==
    /\ agentUrl \in BOOLEAN
    /\ \E u \in {<<>>, <<"u">>} :
          gen = [r \in Runs |-> newGenerator(IF r = 1 THEN u ELSE <<>>)]
    /\ emitted = [r \in Runs |-> <<>>]


----------------------------------------------------------------------------
(* Agent service: streamOpenAIResponse, the parser of the model API's
   server-sent events.  The response is a sequence of lines and block
   delimiters ("\n\n"); a chunk carries whole lines.  A line is
     comment : a line that does not start with "data:"
     bad     : "data: " and text that is not JSON
     usage   : "data: " and JSON with usage.total_tokens and no choices
     data    : "data: " and JSON whose first choice has a non-empty content
     done    : "data: [DONE]"                                             *)

Separator == [kind |-> "sep", token |-> <<>>, total |-> 0]

ResponseLines ==
    {[kind |-> k, token |-> <<>>, total |-> 0] : k \in {"bad", "done", "sep"}}
    \cup {[kind |-> "data", token |-> <<"x">>, total |-> 0],
          [kind |-> "usage", token |-> <<>>, total |-> 7]}

Chunks == UNION {[1..n -> ResponseLines] : n \in 1..MaxChunk}

newOpenAIStream ==
    [phase |-> "reading", buffer |-> <<>>, streamClosed |-> FALSE,
     emittedTokens |-> 0, reportedTotalTokens |-> Undefined,
     reads |-> 0, received |-> <<>>]

OpenAIToken(token) == [type |-> "assistant_token", token |-> token, totalTokens |-> 0]
OpenAIDone(total) == [type |-> "assistant_done", token |-> <<>>, totalTokens |-> total]

\* buffer.indexOf("\n\n"), 0 when there is none
delimiterIndex(buffer) ==
    IF \E i \in 1..Len(buffer) : buffer[i] = Separator
    THEN CHOOSE i \in 1..Len(buffer) :
            /\ buffer[i] = Separator
            /\ \A j \in 1..(i - 1) : buffer[j] # Separator
    ELSE 0

\* Faulty variant of parseLines: [DONE] is one more line that is not JSON
RECURSIVE parseLinesDoneIsBad(_, _)
parseLinesDoneIsBad(lines, st) ==
    IF lines = <<>> THEN st
    ELSE LET line == Head(lines) IN
         CASE line.kind = "usage" ->
                parseLinesDoneIsBad(Tail(lines),
                    [st EXCEPT !.gen.reportedTotalTokens = Some(line.total)])
           [] line.kind = "data" ->
                parseLinesDoneIsBad(Tail(lines),
                    [st EXCEPT !.gen.emittedTokens = @ + 1,
                               !.out = Append(@, OpenAIToken(line.token))])
           [] OTHER -> parseLinesDoneIsBad(Tail(lines), st)

\* for (const rawLine of lines): st is the generator and what it yields
RECURSIVE parseLines(_, _)
parseLines(lines, st) ==
    IF lines = <<>> THEN st
    ELSE LET line == Head(lines) IN
         CASE line.kind = "done" ->
                \* streamClosed = true; break
                [st EXCEPT !.gen.streamClosed = TRUE]
           [] line.kind = "usage" ->
                parseLines(Tail(lines),
                    [st EXCEPT !.gen.reportedTotalTokens = Some(line.total)])
           [] line.kind = "data" ->
                parseLines(Tail(lines),
                    [st EXCEPT !.gen.emittedTokens = @ + 1,
                               !.out = Append(@, OpenAIToken(line.token))])
           \* no "data:" prefix, or JSON.parse threw: continue
           [] OTHER -> parseLines(Tail(lines), st)

\* while (!streamClosed && (delimiterIndex = buffer.indexOf("\n\n")) !== -1)
RECURSIVE parseBuffer(_)
parseBuffer(st) ==
    LET i == delimiterIndex(st.gen.buffer) IN
    IF st.gen.streamClosed \/ i = 0 THEN st
    ELSE LET rawEvent == SubSeq(st.gen.buffer, 1, i - 1)
             rest == SubSeq(st.gen.buffer, i + 1, Len(st.gen.buffer))
         IN parseBuffer(parseLines(rawEvent, [st EXCEPT !.gen.buffer = rest]))

\* One turn of the while (true) loop for a read that returned value (a
\* chunk, or <<>> with done): the events yielded up to the next read, the
\* closing assistant_done included
streamOpenAIResponse(g, value, done) ==
    LET read == [g EXCEPT !.buffer = @ \o value,
                          !.received = @ \o value,
                          !.reads = @ + 1]
        st == parseBuffer([gen |-> read, out |-> <<>>])
    IN IF st.gen.streamClosed \/ done
       THEN [gen |-> [st.gen EXCEPT !.phase = "finished"],
             out |-> Append(st.out,
                        OpenAIDone(IF IsSet(st.gen.reportedTotalTokens)
                                   THEN Val(st.gen.reportedTotalTokens)
                                   ELSE st.gen.emittedTokens))]
       ELSE st

\* reader.read() resolves with a chunk
ReadChunk ==
    /\ oa.phase = "reading"
    /\ oa.reads < MaxReads
    /\ \E value \in Chunks :
          LET step == streamOpenAIResponse(oa, value, FALSE)
          IN /\ oa' = step.gen
             /\ oaOut' = oaOut \o step.out
    /\ UNCHANGED <<storeVars, hubVars, genVars, runVars, rateVars, loadVars, diskWritable>>

\* reader.read() resolves with done
ReadDone ==
    /\ oa.phase = "reading"
    /\ LET step == streamOpenAIResponse(oa, <<>>, TRUE)
       IN /\ oa' = step.gen
          /\ oaOut' = oaOut \o step.out
    /\ UNCHANGED <<storeVars, hubVars, genVars, runVars, rateVars, loadVars, diskWritable>>

\* reader.read() rejects: the exception leaves the generator
ReadFails ==
    /\ oa.phase = "reading"
    /\ oa' = [oa EXCEPT !.phase = "threw"]
    /\ UNCHANGED <<storeVars, hubVars, genVars, runVars, rateVars, loadVars,
                   oaOut, diskWritable>>

AgentServiceIdle ==
    /\ oa = newOpenAIStream
    /\ oaOut = <<>>
    /\ diskWritable = TRUE

----------------------------------------------------------------------------
(* Rate limiter: server/rate-limit *)

\* Faulty variant of consumeRateLimit: the rejected call is pushed too
consumeRateLimitCountsRejected(store, key, at) ==
    LET windowMs == RATE_LIMIT_WINDOW_MIN * 60 * 1000
        timestamps == SelectSeq(store[key], LAMBDA ts : at - ts < windowMs)
    IN [threw |-> Len(timestamps) >= RATE_LIMIT_MAX,
        store |-> [store EXCEPT ![key] = Append(timestamps, at)]]

\* consumeRateLimit(key) at Date.now() = at: whether it threw RateLimitError
\* and the store it leaves.  The filtered list is assigned to the stored
\* entry before the throw.
consumeRateLimit(store, key, at) ==
    LET windowMs == RATE_LIMIT_WINDOW_MIN * 60 * 1000
        timestamps == SelectSeq(store[key], LAMBDA ts : at - ts < windowMs)
    IN IF Len(timestamps) >= RATE_LIMIT_MAX
       THEN [threw |-> TRUE, store |-> [store EXCEPT ![key] = timestamps]]
       ELSE [threw |-> FALSE, store |-> [store EXCEPT ![key] = Append(timestamps, at)]]

\* A call of consumeRateLimit, kept in rateCalls
ConsumeRateLimit(key) ==
    LET c == consumeRateLimit(rateLimitStore, key, now)
    IN /\ rateLimitStore' = c.store
       /\ rateCalls' = Append(rateCalls, [key |-> key, at |-> now, ok |-> ~c.threw])

----------------------------------------------------------------------------
(* Metrics aggregator: server/observability/metrics.  A rate (tokensPerSec,
   errorRate24h) is a number of hundredths, as tokenRate is. *)

MAX_METRICS == 200

NoMetrics == [messageMetrics |-> <<>>, errorMetrics |-> <<>>]

Min(a, b) == IF a <= b THEN a ELSE b

\* push(sample), then splice(0, length - MAX_METRICS) of a longer buffer
push(buf, sample) ==
    LET pushed == Append(buf, sample)
    IN IF Len(pushed) > MAX_METRICS
       THEN SubSeq(pushed, Len(pushed) - MAX_METRICS + 1, Len(pushed))
       ELSE pushed

recordMessageMetric(m, metric) ==
    [m EXCEPT !.messageMetrics = push(@, metric)]

recordErrorMetric(m, at) ==
    [m EXCEPT !.errorMetrics = push(@, [recordedAt |-> at])]

\* reduce((sum, metric) => sum + metric[field], 0)
RECURSIVE reduceSum(_, _)
reduceSum(buf, field) ==
    IF buf = <<>> THEN 0 ELSE buf[1][field] + reduceSum(Tail(buf), field)

\* Math.round(num / den), for num >= 0 and den > 0
mathRound(num, den) == (2 * num + den) \div (2 * den)

\* Faulty variant of getAggregateMetrics: the means are taken over the
\* whole buffer
getAggregateMetricsWholeBuffer(m, at) ==
    LET cutOff == at - 24 * 60 * 60 * 1000
        recentMessages == m.messageMetrics
        recentErrors == SelectSeq(m.errorMetrics, LAMBDA x : x.recordedAt >= cutOff)
        n == Len(recentMessages)
        totalOperations == IF n # 0 THEN n ELSE 1
    IN [avgFirstTokenLatencyMs |->
            IF n > 0 THEN Some(mathRound(reduceSum(recentMessages, "firstTokenLatencyMs"), n))
            ELSE Undefined,
        avgTokensPerSec |->
            IF n > 0 THEN Some(toFixed2(reduceSum(recentMessages, "tokensPerSec"), 100 * n))
            ELSE Undefined,
        errorRate24h |->
            toFixed2(Min(Len(recentErrors), totalOperations), totalOperations)]

\* Faulty variant of getAggregateMetrics: the error rate without Math.min
getAggregateMetricsNoMin(m, at) ==
    LET cutOff == at - 24 * 60 * 60 * 1000
        recentMessages == SelectSeq(m.messageMetrics, LAMBDA x : x.recordedAt >= cutOff)
        recentErrors == SelectSeq(m.errorMetrics, LAMBDA x : x.recordedAt >= cutOff)
        n == Len(recentMessages)
        totalOperations == IF n # 0 THEN n ELSE 1
    IN [avgFirstTokenLatencyMs |->
            IF n > 0 THEN Some(mathRound(reduceSum(recentMessages, "firstTokenLatencyMs"), n))
            ELSE Undefined,
        avgTokensPerSec |->
            IF n > 0 THEN Some(toFixed2(reduceSum(recentMessages, "tokensPerSec"), 100 * n))
            ELSE Undefined,
        errorRate24h |-> toFixed2(Len(recentErrors), totalOperations)]

\* getAggregateMetrics at Date.now() = at; null is Undefined
getAggregateMetrics(m, at) ==
    LET cutOff == at - 24 * 60 * 60 * 1000
        recentMessages == SelectSeq(m.messageMetrics, LAMBDA x : x.recordedAt >= cutOff)
        recentErrors == SelectSeq(m.errorMetrics, LAMBDA x : x.recordedAt >= cutOff)
        n == Len(recentMessages)
        \* recentMessages.length || 1
        totalOperations == IF n # 0 THEN n ELSE 1
    IN [avgFirstTokenLatencyMs |->
            IF n > 0 THEN Some(mathRound(reduceSum(recentMessages, "firstTokenLatencyMs"), n))
            ELSE Undefined,
        avgTokensPerSec |->
            IF n > 0 THEN Some(toFixed2(reduceSum(recentMessages, "tokensPerSec"), 100 * n))
            ELSE Undefined,
        \* Number(Math.min(recentErrors.length / totalOperations, 1).toFixed(2))
        errorRate24h |->
            toFixed2(Min(Len(recentErrors), totalOperations), totalOperations)]

----------------------------------------------------------------------------
(* Assistant run orchestrator: the POST /messages route, startAssistantStream
   and its background task *)

MAX_CONVERSATION_MESSAGES == 30

\* mutate(): the callback has run on the in-memory data; the write is then
\* chained on writeQueue and awaited.  A rejected writeQueue stays rejected
\* (then() without a rejection handler), and the await throws.
mutateThrows(queue, writeOk) == queue = "rejected" \/ ~writeOk
mutateQueue(queue, writeOk) ==
    IF mutateThrows(queue, writeOk) THEN "rejected" ELSE "resolved"

\* normalizeForAgent over the history, nulls dropped, last 30 kept
normalizeForAgent(message) ==
    LET content == trim(message.text) IN
    IF content = <<>> THEN Undefined
    ELSE IF message.role \in {"user", "assistant", "system"}
         THEN Some([role |-> message.role, content |-> content])
         ELSE Undefined

RECURSIVE normalizeAll(_)
normalizeAll(history) ==
    IF history = <<>> THEN <<>>
    ELSE normalizeForAgent(Head(history)) \o normalizeAll(Tail(history))

\* Faulty variant of conversationOf: keeps the oldest messages
conversationOfOldest(history) ==
    LET all == normalizeAll(history)
    IN SubSeq(all, 1, Min(Len(all), MAX_CONVERSATION_MESSAGES))

conversationOf(history) ==
    LET all == normalizeAll(history)
        from == Max(1, Len(all) - MAX_CONVERSATION_MESSAGES + 1)
    IN SubSeq(all, from, Len(all))

\* generateFallbackResponse's lastUserMessage?.content ?? ""
lastUserContent(conversation) ==
    LET users == {i \in 1..Len(conversation) : conversation[i].role = "user"}
    IN IF users = {} THEN <<>>
       ELSE conversation[CHOOSE i \in users : \A j \in users : j <= i].content

\* The message bodies the route is posted
PostedTexts == {<<"u">>}

NoRun ==
    [pc |-> "idle", sessionId |-> 0, userCreatedAt |-> 0, messageId |-> 0,
     shouldAttachAudio |-> FALSE, conversation |-> <<>>, event |-> Undefined,
     finalized |-> Undefined, caught |-> FALSE]

\* POST /api/sessions/[id]/messages up to addUserMessage
PostMessage(r) ==
    /\ run[r].pc = "idle"
    /\ ~consumeRateLimit(rateLimitStore, "message:u1", now).threw
    /\ ConsumeRateLimit("message:u1")
    /\ \E sessionId \in SessionIds, text \in PostedTexts, writeOk \in BOOLEAN :
          /\ getSession(sessions, sessionId) # Undefined
          /\ LET audio == IF text = <<>> THEN Some("data:audio") ELSE Undefined
                 m == newUserMessage(Len(messages) + 1, sessionId, text, audio, now)
             IN /\ messages' = Append(messages, m)
                /\ writeQueue' = mutateQueue(writeQueue, writeOk)
                /\ run' = [run EXCEPT ![r] =
                      [@ EXCEPT !.pc = IF mutateThrows(writeQueue, writeOk)
                                       THEN "rejected" ELSE "posted",
                                !.sessionId = sessionId,
                                !.userCreatedAt = m.createdAt]]
    /\ UNCHANGED <<sessions, now, lastCall, metrics, hubVars, genVars, loadVars, oaVars, diskWritable>>

\* startAssistantStream up to the launch of the background task
StartAssistantStream(r) ==
    /\ run[r].pc = "posted"
    /\ \E writeOk \in BOOLEAN :
          LET sessionId == run[r].sessionId
              history == getSessionMessages(messages, sessionId)
              session == getSession(sessions, sessionId)
              conversation == conversationOf(history)
              m == newAssistantMessage(Len(messages) + 1, sessionId, now)
              threw == mutateThrows(writeQueue, writeOk)
          IN /\ messages' = Append(messages, m)
             /\ writeQueue' = mutateQueue(writeQueue, writeOk)
             /\ run' = [run EXCEPT ![r] =
                   [@ EXCEPT !.pc = IF threw THEN "rejected" ELSE "next",
                             !.messageId = m.id,
                             !.conversation = conversation,
                             !.shouldAttachAudio =
                                 /\ session # Undefined
                                 /\ Val(session).mode \in {"voice", "hybrid"}]]
             /\ gen' = [gen EXCEPT ![r] = newGenerator(lastUserContent(conversation))]
    /\ UNCHANGED <<sessions, now, lastCall, metrics, hubVars, agentUrl, emitted, rateVars, loadVars, oaVars, diskWritable>>

\* Faulty variant of handleEvent: nothing is stored for a session that
\* nobody listens to
handleEventIfSubscribers(r, event) ==
    IF socketConnections[run[r].sessionId] = <<>>
       /\ listenerConnections[run[r].sessionId] = <<>>
    THEN [messages |-> messages, result |-> Undefined]
    ELSE CASE event.type = "assistant_token" ->
                 appendAssistantToken(messages, run[r].sessionId, run[r].messageId,
                                      event.token, now)
           [] event.type = "assistant_done" ->
                 finalizeAssistantMessage(messages, run[r].sessionId,
                                          run[r].messageId, now)
           [] event.type = "error" ->
                 recordMessageError(messages, run[r].sessionId, run[r].messageId,
                                    "upstream error", now)
           [] OTHER -> [messages |-> messages, result |-> Undefined]

\* Faulty variant of handleEvent: the store call is made on the session's
\* newest message
handleEventNewestMessage(r, event) ==
    LET mine == {i \in 1..Len(messages) : messages[i].sessionId = run[r].sessionId}
        id == CHOOSE i \in mine : \A j \in mine : j <= i
    IN CASE event.type = "assistant_token" ->
                appendAssistantToken(messages, run[r].sessionId, id, event.token, now)
         [] event.type = "assistant_done" ->
                finalizeAssistantMessage(messages, run[r].sessionId, id, now)
         [] event.type = "error" ->
                recordMessageError(messages, run[r].sessionId, id, "upstream error", now)
         [] OTHER -> [messages |-> messages, result |-> Undefined]

\* Faulty variant of handleEvent: the event is relayed with nothing stored
handleEventRelayOnly(r, event) ==
    [messages |-> messages, result |-> Undefined]

\* The store call of the switch for one event: the new messages and what
\* the call returned
handleEvent(r, event) ==
    CASE event.type = "assistant_token" ->
            appendAssistantToken(messages, run[r].sessionId, run[r].messageId,
                                 event.token, now)
      [] event.type = "assistant_done" ->
            finalizeAssistantMessage(messages, run[r].sessionId, run[r].messageId, now)
      [] event.type = "error" ->
            recordMessageError(messages, run[r].sessionId, run[r].messageId,
                               "upstream error", now)
      [] OTHER -> [messages |-> messages, result |-> Undefined]

\* for await: the generator is pulled once; the event it yields goes to its
\* case of the switch, up to the await of the store's write
Pull(r) ==
    /\ run[r].pc = "next"
    /\ \E input \in UpstreamInputs(gen[r]), writeOk \in BOOLEAN :
          LET step == streamAgentCompletion(r, gen[r], input) IN
          /\ gen' = [gen EXCEPT ![r] = step.gen]
          /\ emitted' = [emitted EXCEPT ![r] = @ \o step.out]
          /\ IF step.out = <<>>
             THEN /\ writeOk
                  /\ run' = [run EXCEPT ![r].pc =
                                IF step.gen.phase = "finished" THEN "ended" ELSE "next"]
                  /\ UNCHANGED <<messages, writeQueue>>
             ELSE LET event == step.out[1]
                      h == handleEvent(r, event)
                      stores == event.type # "degraded"
                  IN /\ messages' = h.messages
                     /\ stores \/ writeOk
                     /\ writeQueue' = IF stores THEN mutateQueue(writeQueue, writeOk)
                                      ELSE writeQueue
                     /\ run' = [run EXCEPT ![r] =
                           [@ EXCEPT !.pc = IF stores /\ mutateThrows(writeQueue, writeOk)
                                            THEN "catch" ELSE "relay",
                                     !.caught = stores /\ mutateThrows(writeQueue, writeOk),
                                     !.event = Some(event),
                                     !.finalized = h.result]]
    /\ UNCHANGED <<sessions, now, lastCall, metrics, hubVars, agentUrl, rateVars, loadVars, oaVars, diskWritable>>

\* latency >= 0 && finalized.tokenRate !== undefined, for a finalized
\* message with a firstTokenAt
recordsMessageMetric(r, finalized) ==
    /\ finalized # Undefined
    /\ IsSet(Val(finalized).firstTokenAt)
    /\ Val(Val(finalized).firstTokenAt) - run[r].userCreatedAt >= 0
    /\ IsSet(Val(finalized).tokenRate)

\* Faulty variant of wantsAudio: the session's mode is not looked at
wantsAudioAnyMode(r, finalized) ==
    /\ finalized # Undefined
    /\ trim(Val(finalized).text) # <<>>

wantsAudio(r, finalized) ==
    /\ run[r].shouldAttachAudio
    /\ finalized # Undefined
    /\ trim(Val(finalized).text) # <<>>

\* The rest of the case after the store's write: metrics, broadcastEvent
Relay(r) ==
    /\ run[r].pc = "relay"
    /\ LET event == Val(run[r].event)
           finalized == run[r].finalized
       IN /\ \E throwers \in SUBSET Range(listenerConnections[run[r].sessionId]) :
                Broadcast(run[r].sessionId, event, {}, throwers)
          /\ metrics' =
                IF event.type = "assistant_done" /\ recordsMessageMetric(r, finalized)
                    THEN recordMessageMetric(metrics,
                            [firstTokenLatencyMs |->
                                 Val(Val(finalized).firstTokenAt) - run[r].userCreatedAt,
                             tokensPerSec |-> Val(Val(finalized).tokenRate),
                             recordedAt |-> now])
                ELSE IF event.type = "error"
                    THEN recordErrorMetric(metrics, now)
                ELSE metrics
          /\ run' = [run EXCEPT ![r].pc =
                IF event.type = "assistant_done" /\ wantsAudio(r, finalized)
                THEN "tts" ELSE "next"]
    /\ UNCHANGED <<storeVars, genVars, rateVars, loadVars, oaVars, diskWritable>>

\* synthesizeAgentSpeech, then attachMessageAudio, inside the audio try
Synthesize(r) ==
    /\ run[r].pc = "tts"
    /\ \E ttsOk \in BOOLEAN, writeOk \in BOOLEAN :
          /\ ttsOk => agentUrl
          /\ ttsOk \/ writeOk
          /\ IF ttsOk
             THEN LET a == attachMessageAudio(messages, run[r].sessionId,
                                              run[r].messageId, "data:audio")
                  IN /\ messages' = a.messages
                     /\ writeQueue' = mutateQueue(writeQueue, writeOk)
                     /\ run' = [run EXCEPT ![r].pc =
                           IF mutateThrows(writeQueue, writeOk) THEN "next" ELSE "audio"]
             ELSE /\ run' = [run EXCEPT ![r].pc = "next"]
                  /\ UNCHANGED <<messages, writeQueue>>
    /\ UNCHANGED <<sessions, now, lastCall, metrics, hubVars, genVars, rateVars, loadVars, oaVars, diskWritable>>

\* broadcastEvent of assistant_audio, inside the audio try
RelayAudio(r) ==
    /\ run[r].pc = "audio"
    /\ \E throwers \in SUBSET Range(listenerConnections[run[r].sessionId]) :
          Broadcast(run[r].sessionId, AudioEvent(r), {}, throwers)
    /\ run' = [run EXCEPT ![r].pc = "next"]
    /\ UNCHANGED <<storeVars, genVars, metrics, rateVars, loadVars, oaVars, diskWritable>>

\* The catch of the background task, up to the await of recordMessageError
Catch(r) ==
    /\ run[r].pc = "catch"
    /\ \E writeOk \in BOOLEAN :
          LET e == recordMessageError(messages, run[r].sessionId, run[r].messageId,
                                      "exception", now)
          IN /\ messages' = e.messages
             /\ writeQueue' = mutateQueue(writeQueue, writeOk)
             /\ run' = [run EXCEPT ![r].pc =
                   IF mutateThrows(writeQueue, writeOk) THEN "ended" ELSE "catchRelay"]
    /\ UNCHANGED <<sessions, now, lastCall, metrics, hubVars, genVars, rateVars, loadVars, oaVars, diskWritable>>

\* The rest of the catch: recordErrorMetric, broadcastEvent of an error
CatchRelay(r) ==
    /\ run[r].pc = "catchRelay"
    /\ \E throwers \in SUBSET Range(listenerConnections[run[r].sessionId]) :
          Broadcast(run[r].sessionId, ErrorEvent(r), {}, throwers)
    /\ metrics' = recordErrorMetric(metrics, now)
    /\ run' = [run EXCEPT ![r].pc = "ended"]
    /\ UNCHANGED <<storeVars, genVars, rateVars, loadVars, oaVars, diskWritable>>

LimiterInit ==
    /\ rateLimitStore = [key \in RateKeys |-> <<>>]
    /\ rateCalls = <<>>

RunInit ==
    /\ run = [r \in Runs |-> NoRun]
    /\ metrics = NoMetrics

----------------------------------------------------------------------------
(* Specifications *)

\* The store driven by direct calls
InitStore == StoreInit /\ HubInit /\ GenIdle /\ RunInit /\ LimiterInit /\ LoadedInit /\ AgentServiceIdle

SpecStore == InitStore /\ [][StoreNext]_vars

\* The store and callers that write to what it returned to them
InitAlias == StoreInit /\ HubInit /\ GenIdle /\ RunInit /\ LimiterInit /\ LoadedInit /\ AgentServiceIdle

AliasNext ==
    \/ CallCreateSessionRecord
    \/ CallAddUserMessage
    \/ CallCreateAssistantMessage
    \/ CallAppendAssistantToken
    \/ CallFinalizeAssistantMessage
    \/ CallAttachMessageAudio
    \/ CallRecordMessageError
    \/ CallerWritesReturned

SpecAlias == InitAlias /\ [][AliasNext]_vars

\* A run started on a store that was loaded with a session history: n
\* messages of session 1 created one millisecond apart before time 0, stored
\* oldest first or newest first; the message at position special is blank,
\* padded with spaces, or belongs to session 2
MaxHistory == 32

HistoryKinds == {"plain", "blank", "padded", "foreign"}

OldMessage(i, kind, at) ==
    LET letter == <<"a", "b">>[(i % 2) + 1]
        role == <<"user", "assistant", "system">>[(i % 3) + 1]
        text == CASE kind = "blank" -> <<" ">>
                  [] kind = "padded" -> <<" ", letter, " ">>
                  [] OTHER -> <<letter>>
        sessionId == IF kind = "foreign" THEN 2 ELSE 1
    IN [newUserMessage(i, sessionId, text, Undefined, at) EXCEPT !.role = role]

History(n, special, kind, reversed) ==
    [i \in 1..n |->
        OldMessage(i, IF i = special THEN kind ELSE "plain",
                   IF reversed THEN 0 - i ELSE i - MaxHistory - 1)]

InitConversation ==
    /\ \E n \in 0..MaxHistory, special \in 0..MaxHistory,
          kind \in HistoryKinds, reversed \in BOOLEAN :
          /\ special <= n
          /\ (kind = "plain") = (special = 0)
          /\ messages = History(n, special, kind, reversed)
    /\ sessions = <<newSession(1, "chat", 0), newSession(2, "chat", 0)>>
    /\ writeQueue = "resolved"
    /\ now = 0
    /\ lastCall = NoCall
    /\ HubInit /\ GenIdle /\ RunInit /\ LimiterInit /\ LoadedInit /\ AgentServiceIdle

ConversationNext ==
    \/ \E r \in Runs : PostMessage(r)
    \/ \E r \in Runs : StartAssistantStream(r)

SpecConversation == InitConversation /\ [][ConversationNext]_vars

\* Two runs in flight at once, on one session or on two.  The agent service
\* answers each with tokens, errors and assistant_done in any order, run 1
\* with tokens "a" and run 2 with tokens " ", and the writes of the store's
\* file succeed.
TwoRuns == {1, 2}

TokenOfRun(r) == IF r = 1 THEN <<"a">> ELSE <<" ">>

PostMessageWritten(r) == PostMessage(r) /\ writeQueue' = "resolved"

StartAssistantStreamWritten(r) == StartAssistantStream(r) /\ writeQueue' = "resolved"

PullFromService(r) ==
    /\ Pull(r)
    /\ writeQueue' = "resolved"
    /\ gen'[r].phase # "fallback"
    /\ \A i \in 1..Len(emitted'[r]) :
          emitted'[r][i].type = "assistant_token" => emitted'[r][i].token = TokenOfRun(r)

InitTwoRuns ==
    /\ sessions = <<newSession(1, "chat", 0), newSession(2, "chat", 0)>>
    /\ messages = <<>>
    /\ writeQueue = "resolved"
    /\ now = 0
    /\ lastCall = NoCall
    /\ run = [r \in TwoRuns |-> NoRun]
    /\ metrics = NoMetrics
    /\ agentUrl = TRUE
    /\ gen = [r \in TwoRuns |-> newGenerator(<<>>)]
    /\ emitted = [r \in TwoRuns |-> <<>>]
    /\ HubInit /\ LimiterInit /\ LoadedInit /\ AgentServiceIdle

TwoRunsNext ==
    \/ \E r \in TwoRuns : PostMessageWritten(r)
    \/ \E r \in TwoRuns : StartAssistantStreamWritten(r)
    \/ \E r \in TwoRuns : PullFromService(r)
    \/ \E r \in TwoRuns : Relay(r)

SpecTwoRuns == InitTwoRuns /\ [][TwoRunsNext]_vars

\* The store on a disk that fails and recovers.  mutate() applies the
\* callback to data, chains persist() on writeQueue and awaits it: persist
\* runs only if writeQueue was fulfilled, and writes the file only if the
\* disk is writable.
PersistCall(op) ==
    [op |-> op, writable |-> diskWritable, afterFailure |-> writeQueue = "rejected",
     threw |-> mutateThrows(writeQueue, diskWritable)]

Mutate(op, sess, msgs) ==
    /\ sessions' = sess
    /\ messages' = msgs
    /\ writeQueue' = mutateQueue(writeQueue, diskWritable)
    /\ file' = IF mutateThrows(writeQueue, diskWritable) THEN file
               ELSE Some([sessions |-> sess, messages |-> msgs])
    /\ lastCall' = PersistCall(op)
    /\ UNCHANGED <<now, hubVars, genVars, runVars, rateVars, isLoaded, caller,
                   persistQueue, oaVars, diskWritable>>

MutateCreateSessionRecord ==
    /\ Len(sessions) < MaxSessions
    /\ \E mode \in Modes :
          Mutate("createSessionRecord",
                 Append(sessions, newSession(Len(sessions) + 1, mode, now)), messages)

MutateAddUserMessage ==
    /\ Len(messages) < MaxStoreMessages
    /\ \E s \in SessionIds, text \in {<<>>, <<"u">>} :
          LET audio == IF text = <<>> THEN Some("data:audio") ELSE Undefined
          IN Mutate("addUserMessage", sessions,
                    Append(messages,
                           newUserMessage(Len(messages) + 1, s, text, audio, now)))

MutateAppendAssistantToken ==
    /\ \E s \in SessionIds, id \in MessageIds, token \in Tokens :
          LET r == appendAssistantToken(messages, s, id, token, now)
          IN /\ r.result # Undefined
             /\ Val(Val(r.result).tokenCount) <= MaxTokens
             /\ Mutate("appendAssistantToken", sessions, r.messages)

DiskFails ==
    /\ diskWritable
    /\ diskWritable' = FALSE
    /\ UNCHANGED <<storeVars, hubVars, genVars, runVars, rateVars, loadVars, oaVars>>

DiskRecovers ==
    /\ ~diskWritable
    /\ diskWritable' = TRUE
    /\ UNCHANGED <<storeVars, hubVars, genVars, runVars, rateVars, loadVars, oaVars>>

InitPersist == StoreInit /\ HubInit /\ GenIdle /\ RunInit /\ LimiterInit /\ LoadedInit /\ AgentServiceIdle

PersistNext ==
    \/ MutateCreateSessionRecord
    \/ MutateAddUserMessage
    \/ MutateAppendAssistantToken
    \/ DiskFails
    \/ DiskRecovers

SpecPersist == InitPersist /\ [][PersistNext]_vars

\* One assistant message that is appended to and finalized at the times of
\* RateTimes (milliseconds; no quotient of a token count by a duration
\* taken from them lies halfway between two hundredths)
RateTimes == {0, 1, 300, 700, 1000, 1500, 2000}

RateAppend ==
    /\ \E at \in RateTimes :
          LET r == appendAssistantToken(messages, 1, 1, <<"a">>, at)
          IN /\ Val(r.messages[1].tokenCount) <= MaxTokens
             /\ messages' = r.messages
             /\ lastCall' = [op |-> "appendAssistantToken", at |-> at]
    /\ UNCHANGED <<sessions, writeQueue, now, hubVars, genVars, runVars, rateVars, loadVars, oaVars, diskWritable>>

RateFinalize ==
    /\ \E completedAt \in RateTimes :
          LET r == finalizeAssistantMessage(messages, 1, 1, completedAt)
          IN /\ messages' = r.messages
             /\ lastCall' = [op |-> "finalizeAssistantMessage", at |-> completedAt]
    /\ UNCHANGED <<sessions, writeQueue, now, hubVars, genVars, runVars, rateVars, loadVars, oaVars, diskWritable>>

InitRate ==
    /\ sessions = <<newSession(1, "chat", 0)>>
    /\ messages = <<newAssistantMessage(1, 1, 0)>>
    /\ writeQueue = "resolved"
    /\ now = 0
    /\ lastCall = [op |-> "createAssistantMessage", at |-> 0]
    /\ HubInit /\ GenIdle /\ RunInit /\ LimiterInit /\ LoadedInit /\ AgentServiceIdle

RateNext == RateAppend \/ RateFinalize

SpecRate == InitRate /\ [][RateNext]_vars

\* The hub driven by its routes and by direct broadcasts
WebSocketOpen == \E s \in HubSessions, k \in Sockets :
    AttachWebSocket(s, k) /\ UNCHANGED <<storeVars, genVars, runVars, rateVars, loadVars, oaVars, diskWritable>>
WebSocketClosing == \E k \in Sockets :
    SocketClosing(k) /\ UNCHANGED <<storeVars, genVars, runVars, rateVars, loadVars, oaVars, diskWritable>>
WebSocketClosed == \E k \in Sockets :
    SocketClosed(k) /\ UNCHANGED <<storeVars, genVars, runVars, rateVars, loadVars, oaVars, diskWritable>>
SseOpen == \E s \in HubSessions, l \in Listeners :
    Subscribe(s, l) /\ UNCHANGED <<storeVars, genVars, runVars, rateVars, loadVars, oaVars, diskWritable>>
SseAbort == \E l \in Listeners :
    Unsubscribe(l) /\ UNCHANGED <<storeVars, genVars, runVars, rateVars, loadVars, oaVars, diskWritable>>

\* The aggregator on its own: callers record samples and read the
\* aggregate while the clock advances by half days.  A message sample
\* carries the recordedAt its caller passes: now, or 25 hours ago.
MetricSamples ==
    {[firstTokenLatencyMs |-> 100, tokensPerSec |-> 400],
     [firstTokenLatencyMs |-> 201, tokensPerSec |-> 800]}

CallRecordMessageMetric ==
    /\ Len(metrics.messageMetrics) < MaxSamples
    /\ \E sample \in MetricSamples, recordedAt \in {now, now - 25 * 60 * 60 * 1000} :
          metrics' = recordMessageMetric(metrics,
              [firstTokenLatencyMs |-> sample.firstTokenLatencyMs,
               tokensPerSec |-> sample.tokensPerSec,
               recordedAt |-> recordedAt])
    /\ lastCall' = [op |-> "recordMessageMetric"]
    /\ UNCHANGED <<sessions, messages, writeQueue, now, run, hubVars, genVars, rateVars, loadVars, oaVars, diskWritable>>

CallRecordErrorMetric ==
    /\ Len(metrics.errorMetrics) < MaxSamples
    /\ metrics' = recordErrorMetric(metrics, now)
    /\ lastCall' = [op |-> "recordErrorMetric"]
    /\ UNCHANGED <<sessions, messages, writeQueue, now, run, hubVars, genVars, rateVars, loadVars, oaVars, diskWritable>>

CallGetAggregateMetrics ==
    /\ lastCall' = [op |-> "getAggregateMetrics",
                    result |-> getAggregateMetrics(metrics, now)]
    /\ UNCHANGED <<sessions, messages, writeQueue, now, hubVars, genVars, runVars, rateVars, loadVars, oaVars, diskWritable>>

HalfDayPasses ==
    /\ now < MaxTicks * 12 * 60 * 60 * 1000
    /\ now' = now + 12 * 60 * 60 * 1000
    /\ lastCall' = NoCall
    /\ UNCHANGED <<sessions, messages, writeQueue, hubVars, genVars, runVars, rateVars, loadVars, oaVars, diskWritable>>

InitMetrics == StoreInit /\ HubInit /\ GenIdle /\ RunInit /\ LimiterInit /\ LoadedInit /\ AgentServiceIdle

MetricsNext ==
    \/ CallRecordMessageMetric
    \/ CallRecordErrorMetric
    \/ CallGetAggregateMetrics
    \/ HalfDayPasses

SpecMetrics == InitMetrics /\ [][MetricsNext]_vars

\* The limiter on its own: callers consume quota under two keys while the
\* clock advances by half minutes
CallConsumeRateLimit ==
    /\ Len(rateCalls) < MaxRateCalls
    /\ \E key \in RateKeys : ConsumeRateLimit(key)
    /\ UNCHANGED <<storeVars, hubVars, genVars, runVars, loadVars, oaVars, diskWritable>>

HalfMinutePasses ==
    /\ now < MaxHalfMinutes * 30 * 1000
    /\ now' = now + 30 * 1000
    /\ UNCHANGED <<sessions, messages, writeQueue, lastCall, hubVars, genVars,
                   runVars, rateVars, loadVars, oaVars, diskWritable>>

InitLimiter == StoreInit /\ HubInit /\ GenIdle /\ RunInit /\ LimiterInit /\ LoadedInit /\ AgentServiceIdle

LimiterNext == CallConsumeRateLimit \/ HalfMinutePasses

SpecLimiter == InitLimiter /\ [][LimiterNext]_vars

\* The store of a process that has just started: nothing is loaded, and the
\* data file is missing or holds a session and an assistant message of an
\* earlier process.  Two callers call createSessionRecord and
\* appendAssistantToken concurrently.
InitLoad ==
    /\ StoreInit /\ HubInit /\ GenIdle /\ RunInit /\ LimiterInit /\ AgentServiceIdle
    /\ isLoaded = FALSE
    /\ file \in {Undefined,
                 Some([sessions |-> <<newSession(1, "chat", 0)>>,
                       messages |-> <<newAssistantMessage(1, 1, 0)>>])}
    /\ caller = [c \in LoadCallers |-> IdleCaller]
    /\ persistQueue = <<>>

LoadNext ==
    \/ \E c \in LoadCallers : EnterMutate(c)
    \/ \E c \in LoadCallers : ReadFile(c)
    \/ \E c \in LoadCallers : ParseFile(c)
    \/ \E c \in LoadCallers : PersistMissing(c)
    \/ \E c \in LoadCallers : ApplyFn(c)
    \/ \E c \in LoadCallers : PersistQueued(c)

SpecLoad == InitLoad /\ [][LoadNext]_vars

\* The agent service reads one response of the model API
InitOpenAI ==
    /\ StoreInit /\ HubInit /\ GenIdle /\ RunInit /\ LimiterInit /\ LoadedInit
    /\ AgentServiceIdle

OpenAINext == ReadChunk \/ ReadDone \/ ReadFails

SpecOpenAI == InitOpenAI /\ [][OpenAINext]_vars

InitHub == StoreInit /\ HubInit /\ GenIdle /\ RunInit /\ LimiterInit /\ LoadedInit /\ AgentServiceIdle

HubNext ==
    \/ WebSocketOpen
    \/ WebSocketClosing
    \/ WebSocketClosed
    \/ SseOpen
    \/ SseAbort
    \/ CallBroadcastEvent

SpecHub == InitHub /\ [][HubNext]_vars

\* The hub with sockets whose send() may throw: a caller broadcasts the next
\* event to a session, and the send of any of its open sockets may fail
CallBroadcastEventSendThrows ==
    /\ Len(broadcastLog[1]) + Len(broadcastLog[2]) < MaxBroadcasts
    /\ \E sessionId \in HubSessions :
       \E failing \in SUBSET {k \in Range(socketConnections[sessionId]) :
                                 readyState[k] = "OPEN"} :
       \E throwers \in SUBSET Range(listenerConnections[sessionId]) :
          /\ Broadcast(sessionId,
                       HubEvent(Len(broadcastLog[1]) + Len(broadcastLog[2]) + 1),
                       failing, throwers)
          /\ lastCall' = [op |-> "broadcastEvent", failing |-> failing]
    /\ UNCHANGED <<sessions, messages, writeQueue, now, genVars, runVars, rateVars,
                   loadVars, oaVars, diskWritable>>

InitSend == StoreInit /\ HubInit /\ GenIdle /\ RunInit /\ LimiterInit /\ LoadedInit /\ AgentServiceIdle

SendNext ==
    \/ WebSocketOpen
    \/ WebSocketClosing
    \/ WebSocketClosed
    \/ SseOpen
    \/ SseAbort
    \/ CallBroadcastEventSendThrows

SpecSend == InitSend /\ [][SendNext]_vars

\* One streamAgentCompletion generator, pulled to its end
InitAdapter == StoreInit /\ HubInit /\ GenInit /\ RunInit /\ LimiterInit /\ LoadedInit /\ AgentServiceIdle

AdapterNext == GeneratorNext(1)

SpecAdapter == InitAdapter /\ [][AdapterNext]_vars

\* The whole core: sessions are created, sockets and SSE streams come and
\* go, messages are posted and their runs relayed.  A write of the store's
\* file may fail at any mutation; a send to an open socket does not throw
\* here, so the only exception the background task catches is a rejected
\* write, after which recordMessageError rejects too and CatchRelay is
\* never reached: it is left out of Next.
CreateSession ==
    /\ Len(sessions) < MaxSessions
    /\ \E mode \in Modes :
          sessions' = Append(sessions, newSession(Len(sessions) + 1, mode, now))
    /\ UNCHANGED <<messages, writeQueue, now, lastCall, hubVars, genVars, runVars, rateVars, loadVars, oaVars, diskWritable>>

\* The SSE streams opened while runs are relayed
RunListeners == {"l1"}

RouteWebSocket == \E s \in HubSessions, k \in Sockets :
    /\ getSession(sessions, s) # Undefined
    /\ AttachWebSocket(s, k)
    /\ UNCHANGED <<storeVars, genVars, runVars, rateVars, loadVars, oaVars, diskWritable>>

RouteSse == \E s \in HubSessions, l \in RunListeners :
    /\ getSession(sessions, s) # Undefined
    /\ Subscribe(s, l)
    /\ UNCHANGED <<storeVars, genVars, runVars, rateVars, loadVars, oaVars, diskWritable>>

Init ==
    /\ StoreInit
    /\ HubInit
    /\ RunInit
    /\ LimiterInit
    /\ LoadedInit /\ AgentServiceIdle
    /\ agentUrl \in BOOLEAN
    /\ gen = [r \in Runs |-> newGenerator(<<>>)]
    /\ emitted = [r \in Runs |-> <<>>]

Next ==
    \/ CreateSession
    \/ RouteWebSocket
    \/ WebSocketClosing
    \/ WebSocketClosed
    \/ RouteSse
    \/ SseAbort
    \/ \E r \in Runs : PostMessage(r)
    \/ \E r \in Runs : StartAssistantStream(r)
    \/ \E r \in Runs : Pull(r)
    \/ \E r \in Runs : Relay(r)
    \/ \E r \in Runs : Synthesize(r)
    \/ \E r \in Runs : RelayAudio(r)
    \/ \E r \in Runs : Catch(r)

Spec == Init /\ [][Next]_vars

----------------------------------------------------------------------------
(* Properties of a run, under Spec *)

IsTerminal(e) == e.type \in {"assistant_done", "error"}
Terminals(events) == {i \in 1..Len(events) : IsTerminal(events[i])}
TokensOf(events) == SelectSeq(events, LAMBDA e : e.type = "assistant_token")

\* The subscribers broadcastEvent is to reach for a session: its attached
\* sockets that are open and its attached listeners
OpenSockets(sessionId) ==
    {k \in Range(socketConnections[sessionId]) : readyState[k] = "OPEN"}
Targets(sessionId) ==
    OpenSockets(sessionId) \cup Range(listenerConnections[sessionId])

Launched(r) == run[r].pc \notin {"idle", "posted", "rejected"}

\* The assistant message the run created
RunMessage(r) == messages[run[r].messageId]

\* The events of run r among those broadcast to its session
Broadcasts(r) ==
    SelectSeq(broadcastLog[run[r].sessionId], LAMBDA e : e.run = r)

RECURSIVE ConcatTokens(_)
ConcatTokens(events) ==
    IF events = <<>> THEN <<>>
    ELSE (IF Head(events).type = "assistant_token" THEN Head(events).token ELSE <<>>)
         \o ConcatTokens(Tail(events))

\* The adapter has yielded N token events and then assistant_done (and
\* nothing else but degraded notices), and the run has handled them all
TokensThenDone(r) ==
    LET E == SelectSeq(emitted[r], LAMBDA e : e.type # "degraded") IN
    /\ Launched(r)
    /\ E # <<>>
    /\ E[Len(E)].type = "assistant_done"
    /\ \A i \in 1..(Len(E) - 1) : E[i].type = "assistant_token"

\* C1 as stated: after N token events and assistant_done the message's text
\* is the concatenation of the N tokens in order and its tokenCount is N.
C1_TextAndCountAsStated ==
    \A r \in Runs :
        TokensThenDone(r) =>
            /\ RunMessage(r).text = ConcatTokens(emitted[r])
            /\ RunMessage(r).tokenCount = Some(Len(TokensOf(emitted[r])))

\* C1 amended: after N token events and assistant_done the message's text
\* is the concatenation of the N tokens in order; its tokenCount is N when
\* N >= 1 and is still unset when N = 0.
C1_TextAndCount ==
    \A r \in Runs :
        TokensThenDone(r) =>
            LET n == Len(TokensOf(emitted[r])) IN
            /\ RunMessage(r).text = ConcatTokens(emitted[r])
            /\ RunMessage(r).tokenCount = IF n = 0 THEN Undefined ELSE Some(n)

C1_Witness ==
    \E r \in Runs :
        /\ TokensThenDone(r)
        /\ Len(TokensOf(emitted[r])) >= 2
        /\ RunMessage(r).tokenCount = Some(Len(TokensOf(emitted[r])))
        /\ Len(RunMessage(r).text) >= 2

\* C3: a run that has been launched and has ended has broadcast a terminal
\* event (assistant_done or error) to its session.
C3_TerminalBroadcast ==
    \A r \in Runs :
        run[r].pc = "ended" =>
            \E i \in 1..Len(Broadcasts(r)) : IsTerminal(Broadcasts(r)[i])

Finalized(m) == IsSet(m.lastTokenAt)

\* C9: sockets that closed and streams that were aborted are in no set of
\* the hub, and whoever is or is not attached the run goes on: its message
\* holds every token yielded so far, and it ends only with the adapter's
\* sequence exhausted and its message finalized, or with an error recorded
\* on its message.
C9_RunSurvivesDetach ==
    /\ \A k \in Sockets : readyState[k] \in {"NEW", "CLOSED"} =>
          \A s \in HubSessions : k \notin Range(socketConnections[s])
    /\ \A l \in Listeners : subscribed[l] \in {"NEW", "OFF"} =>
          \A s \in HubSessions : l \notin Range(listenerConnections[s])
    /\ \A r \in Runs :
          Launched(r) =>
              /\ RunMessage(r).text = ConcatTokens(emitted[r])
              /\ run[r].pc = "ended" =>
                    \/ IsSet(RunMessage(r).error)
                    \/ /\ gen[r].phase = "finished"
                       /\ \E i \in 1..Len(emitted[r]) : emitted[r][i].type = "assistant_done"
                       /\ Finalized(RunMessage(r))

\* A run that ended with tokens appended and its message finalized after
\* every subscriber of its session had detached
C9_Witness ==
    \E r \in Runs, k \in Sockets, l \in Listeners :
        /\ run[r].pc = "ended"
        /\ readyState[k] = "CLOSED" /\ subscribed[l] = "OFF"
        /\ Targets(run[r].sessionId) = {}
        /\ lastBroadcast.outcome = "returned" /\ lastBroadcast.delivered = <<>>
        /\ IsTerminal(lastBroadcast.event[1])
        /\ Len(RunMessage(r).text) >= 2
        /\ Finalized(RunMessage(r)) /\ IsSet(RunMessage(r).tokenRate)
        /\ ~IsSet(RunMessage(r).error)

\* The orchestrator has handled an error event of run r to its end: the
\* error was broadcast
Errored(r) ==
    /\ Launched(r)
    /\ \E i \in 1..Len(Broadcasts(r)) : Broadcasts(r)[i].type = "error"

\* C17: the errored state of a run is absorbing.  Once the orchestrator has
\* handled an error event of a run, no step changes the run's assistant
\* message (no token appended, no finalize), records a metrics sample of
\* either kind, or broadcasts another event of the run.
C17_ErroredAbsorbing ==
    [][\A r \in Runs :
          Errored(r) =>
              /\ messages'[run[r].messageId] = messages[run[r].messageId]
              /\ metrics' = metrics
              /\ SelectSeq(broadcastLog'[run[r].sessionId], LAMBDA e : e.run = r)
                    = Broadcasts(r)]_vars

\* An error event was broadcast and a token of the same run was appended
\* and broadcast after it
C17_Witness ==
    \E r \in Runs :
        /\ Errored(r)
        /\ Len(Broadcasts(r)) = 2
        /\ Broadcasts(r)[1].type = "error"
        /\ Broadcasts(r)[2].type = "assistant_token"
        /\ RunMessage(r).tokenCount = Some(1)
        /\ IsSet(RunMessage(r).error)

\* C18: a run in whose loop an exception was raised ends with the error text
\* on its assistant message, an error sample in the metrics aggregator and
\* an error event broadcast to its session.
C18_ExceptionReported ==
    \A r \in Runs :
        (run[r].caught /\ run[r].pc = "ended") =>
            /\ IsSet(RunMessage(r).error)
            /\ metrics.errorMetrics # <<>>
            /\ \E i \in 1..Len(Broadcasts(r)) : Broadcasts(r)[i].type = "error"

\* A run ended after the write of its first token was rejected: the error
\* text is on the message in memory, and nothing was recorded or broadcast
C18_Witness ==
    \E r \in Runs :
        /\ run[r].caught /\ run[r].pc = "ended"
        /\ writeQueue = "rejected"
        /\ RunMessage(r).error = Some("exception")
        /\ metrics.errorMetrics = <<>>
        /\ Broadcasts(r) = <<>>

AudioEvents(r) == {i \in 1..Len(Broadcasts(r)) : Broadcasts(r)[i].type = "assistant_audio"}

\* C22: assistant_audio is broadcast only in a voice or hybrid session,
\* after the assistant_done of its run and for a message whose text is not
\* blank; and the step in which synthesis or attaching the audio fails
\* records no error on the message and no error sample and broadcasts
\* nothing, so the assistant_done already broadcast stands.
C22_AudioNeverFailsRun ==
    [][\A r \in Runs :
          /\ (Launched(r)' /\ AudioEvents(r)' # {}) =>
                /\ Val(getSession(sessions', run'[r].sessionId)).mode \in {"voice", "hybrid"}
                /\ trim(RunMessage(r)'.text) # <<>>
                /\ \A i \in AudioEvents(r)' :
                      \E j \in 1..(i - 1) : Broadcasts(r)'[j].type = "assistant_done"
          /\ (run[r].pc = "tts" /\ run'[r].pc = "next") =>
                /\ RunMessage(r)'.error = RunMessage(r).error
                /\ metrics' = metrics
                /\ broadcastLog' = broadcastLog
                /\ \E j \in 1..Len(Broadcasts(r)) :
                      Broadcasts(r)[j].type = "assistant_done"]_vars

\* A run of a voice or hybrid session ended with its assistant_done
\* broadcast and no audio: synthesis was asked for and failed
C22_Witness ==
    \E r \in Runs :
        /\ run[r].pc = "ended" /\ ~run[r].caught
        /\ run[r].shouldAttachAudio
        /\ trim(RunMessage(r).text) # <<>>
        /\ AudioEvents(r) = {}
        /\ \E j \in 1..Len(Broadcasts(r)) : Broadcasts(r)[j].type = "assistant_done"
        /\ ~IsSet(RunMessage(r).error)

\* C26: the reply of a run comes from one source: in a run where degraded
\* is emitted, no assistant_token was appended or broadcast before it.
C26_SingleSource ==
    \A r \in Runs :
        Launched(r) =>
            \A i \in 1..Len(Broadcasts(r)) :
                Broadcasts(r)[i].type = "degraded" =>
                    \A j \in 1..(i - 1) : Broadcasts(r)[j].type # "assistant_token"

\* The connection to the agent service broke after one token of it was
\* stored; the fallback's tokens were appended to the same message
C26_Witness ==
    \E r \in Runs :
        /\ Launched(r)
        /\ ~gen[r].malformed
        /\ Len(Broadcasts(r)) >= 3
        /\ Broadcasts(r)[1].type = "assistant_token"
        /\ Broadcasts(r)[2].type = "degraded"
        /\ Broadcasts(r)[3].type = "assistant_token"
        /\ RunMessage(r).text = Broadcasts(r)[1].token \o Broadcasts(r)[3].token

IsPrefix(s, t) == Len(s) <= Len(t) /\ SubSeq(t, 1, Len(s)) = s

\* C27: persist before publish: whenever k token events of a run have been
\* broadcast, a read of the session's messages returns the run's message
\* with a text that starts with those k tokens and a tokenCount of at least
\* k; whenever assistant_done has been broadcast, the message carries what
\* finalizeAssistantMessage writes: lastTokenAt, and tokenRate if a token
\* was broadcast before.
C27_PersistBeforePublish ==
    \A r \in Runs :
        Launched(r) =>
            LET B == Broadcasts(r)
                read == getSessionMessages(messages, run[r].sessionId)
            IN \E i \in 1..Len(read) :
                  /\ read[i].id = run[r].messageId
                  /\ IsPrefix(ConcatTokens(B), read[i].text)
                  /\ TokensOf(B) # <<>> =>
                        /\ IsSet(read[i].tokenCount)
                        /\ Val(read[i].tokenCount) >= Len(TokensOf(B))
                  /\ \A j \in 1..Len(B) :
                        B[j].type = "assistant_done" =>
                            /\ IsSet(read[i].lastTokenAt)
                            /\ (\E k \in 1..(j - 1) : B[k].type = "assistant_token")
                                  => IsSet(read[i].tokenRate)

\* Two tokens and assistant_done have reached a subscriber
C27_Witness ==
    \E r \in Runs :
        /\ Launched(r)
        /\ Len(TokensOf(Broadcasts(r))) = 2
        /\ Broadcasts(r)[Len(Broadcasts(r))].type = "assistant_done"
        /\ lastBroadcast.event = <<Broadcasts(r)[Len(Broadcasts(r))]>>
        /\ lastBroadcast.delivered # <<>>
        /\ IsSet(RunMessage(r).tokenRate)

----------------------------------------------------------------------------
(* Properties of the conversation of a run, under SpecConversation *)

\* The messages of run r's session that were stored before the run created
\* its own assistant message and have a non-blank text and a role of user,
\* assistant or system
Eligible(r) ==
    {i \in 1..(run[r].messageId - 1) :
        /\ messages[i].sessionId = run[r].sessionId
        /\ trim(messages[i].text) # <<>>
        /\ messages[i].role \in {"user", "assistant", "system"}}

\* The place of message i among the eligible ones, oldest first
CreationRank(r, i) ==
    Cardinality({j \in Eligible(r) :
                    \/ messages[j].createdAt < messages[i].createdAt
                    \/ (messages[j].createdAt = messages[i].createdAt /\ j <= i)})

\* C25: the conversation handed to the adapter is the last 30 (or fewer) of
\* the session's messages with a non-blank text and a role of user, assistant
\* or system, in ascending creation order; the assistant message the run has
\* just created is not among them.
C25_ConversationWindow ==
    \A r \in Runs :
        run[r].pc = "next" =>
            LET n == Cardinality(Eligible(r))
                len == Len(run[r].conversation)
            IN /\ len = Min(n, MAX_CONVERSATION_MESSAGES)
               /\ \A i \in Eligible(r) :
                     CreationRank(r, i) > n - len =>
                         run[r].conversation[CreationRank(r, i) - (n - len)] =
                             [role |-> messages[i].role,
                              content |-> trim(messages[i].text)]
               /\ messages[run[r].messageId].id = run[r].messageId
               /\ messages[run[r].messageId].role = "assistant"
               /\ messages[run[r].messageId].text = <<>>

\* A run on a session of more than 30 eligible messages, stored newest
\* first, one of them blank
C25_Witness ==
    \E r \in Runs :
        /\ run[r].pc = "next"
        /\ Cardinality(Eligible(r)) > MAX_CONVERSATION_MESSAGES
        /\ Len(run[r].conversation) = MAX_CONVERSATION_MESSAGES
        /\ messages[1].createdAt > messages[2].createdAt
        /\ \E i \in 1..Len(messages) :
              /\ messages[i].sessionId = run[r].sessionId
              /\ messages[i].text = <<" ">>

----------------------------------------------------------------------------
(* Properties of two runs in flight, under SpecTwoRuns *)

\* C28: runs are isolated by message id: under any interleaving of two runs,
\* on one session or on two, the message a run created holds the
\* concatenation of that run's tokens in order, its tokenCount is that run's
\* token count, it carries an error exactly if that run's adapter yielded
\* one, and the two runs' messages are different messages.
C28_RunsIsolated ==
    /\ \A r \in TwoRuns :
          Launched(r) =>
              LET n == Len(TokensOf(emitted[r])) IN
              /\ RunMessage(r).role = "assistant"
              /\ RunMessage(r).sessionId = run[r].sessionId
              /\ RunMessage(r).text = ConcatTokens(emitted[r])
              /\ RunMessage(r).tokenCount = IF n = 0 THEN Undefined ELSE Some(n)
              /\ IsSet(RunMessage(r).error) =
                    (\E i \in 1..Len(emitted[r]) : emitted[r][i].type = "error")
    /\ (Launched(1) /\ Launched(2)) => run[1].messageId # run[2].messageId

\* Two runs on one session whose events were broadcast in turn (1, 2, 1),
\* with different replies
C28_Witness ==
    /\ Launched(1) /\ Launched(2)
    /\ run[1].sessionId = run[2].sessionId
    /\ Len(TokensOf(emitted[1])) = 2
    /\ Len(TokensOf(emitted[2])) = 1
    /\ RunMessage(1).text # RunMessage(2).text
    /\ LET B == broadcastLog[run[1].sessionId]
       IN \E i, j, k \in 1..Len(B) :
             /\ i < j /\ j < k
             /\ B[i].run = 1 /\ B[j].run = 2 /\ B[k].run = 1
             /\ B[i].type = "assistant_token" /\ B[j].type = "assistant_token"

----------------------------------------------------------------------------
(* Properties of the store's writes, under SpecPersist *)

\* C29: a failed write is not sticky: a store mutation made after an earlier
\* one failed, at a time when the file is writable again, succeeds, and the
\* file then holds the store's data.
C29_WriteFailureNotSticky ==
    (lastCall.op # "none" /\ lastCall.afterFailure /\ lastCall.writable) =>
        /\ ~lastCall.threw
        /\ file = Some([sessions |-> sessions, messages |-> messages])

\* addUserMessage on a writable disk, after createSessionRecord failed on a
\* full one: it rejects, and the file holds neither the session nor the
\* message
C29_Witness ==
    /\ lastCall.op = "addUserMessage"
    /\ lastCall.afterFailure /\ lastCall.writable /\ lastCall.threw
    /\ diskWritable
    /\ sessions # <<>> /\ messages # <<>>
    /\ file = Some([sessions |-> <<>>, messages |-> <<>>])

----------------------------------------------------------------------------
(* Properties of the hub with failing sends, under SpecSend *)

\* C30: a socket whose send throws does not stop delivery: the session's
\* other open sockets and all its listeners are still handed the event, and
\* broadcastEvent returns to its caller.
C30_SendFailureContained ==
    (lastBroadcast.outcome # "none" /\ lastCall.failing # {}) =>
        /\ lastBroadcast.outcome = "returned"
        /\ Targets(lastBroadcast.sessionId) \ lastCall.failing
              \subseteq Range(lastBroadcast.delivered)

\* The first of two open sockets of a session threw: the second socket and
\* the session's listener got nothing, and the exception reached the caller
C30_Witness ==
    /\ lastBroadcast.outcome = "threw"
    /\ lastBroadcast.throwers = {}
    /\ lastBroadcast.delivered = <<>>
    /\ Cardinality(lastCall.failing) = 1
    /\ Cardinality(OpenSockets(lastBroadcast.sessionId)) = 2
    /\ listenerConnections[lastBroadcast.sessionId] # <<>>

----------------------------------------------------------------------------
(* Properties of the store, under SpecStore *)

C13_ErrorKept ==
    [][/\ lastCall'.op \in {"finalizeAssistantMessage", "appendAssistantToken",
                            "attachMessageAudio"} =>
            \A i \in 1..Len(messages) :
                IsSet(messages[i].error) =>
                    messages'[i].error = messages[i].error
       /\ lastCall'.op = "recordMessageError" =>
            \A i \in 1..Len(messages) :
                /\ messages'[i].text = messages[i].text
                /\ messages'[i].tokenCount = messages[i].tokenCount]_vars

\* An error was recorded on a message that had a token, and the message was
\* finalized afterwards
C13_Witness ==
    /\ lastCall.op = "finalizeAssistantMessage" /\ lastCall.known
    /\ \E i \in 1..Len(messages) :
          /\ IsSet(messages[i].error)
          /\ messages[i].tokenCount = Some(1)
          /\ IsSet(messages[i].tokenRate)

\* C23: user messages are immutable: no store call changes a field of a
\* stored user message.
C23_UserMessageImmutable ==
    [][\A i \in 1..Len(messages) :
          messages[i].role = "user" => messages'[i] = messages[i]]_vars

\* A user message that appendAssistantToken was called on with its own id
\* and session id: it has the token in its text and a tokenCount
C23_Witness ==
    /\ lastCall.op = "appendAssistantToken" /\ lastCall.known
    /\ \E i \in 1..Len(messages) :
          /\ messages[i].role = "user"
          /\ messages[i].tokenCount = Some(1)
          /\ messages[i].text # <<>>

\* C24: what a store call returns is a copy: a caller that assigns a field
\* of the returned session or message does not change the store's data.
C24_ReturnsCopies ==
    [][lastCall'.op = "callerWrite" =>
          (sessions' = sessions /\ messages' = messages)]_vars

\* The caller of createAssistantMessage has assigned the text of the message
\* it was handed, and the stored message has that text
C24_Witness ==
    /\ lastCall.op = "callerWrite"
    /\ \E i \in 1..Len(messages) :
          messages[i].role = "assistant" /\ messages[i].text = <<"!">>

----------------------------------------------------------------------------
(* Properties of finalizeAssistantMessage, under SpecRate *)

Abs(x) == IF x < 0 THEN -x ELSE x

\* h hundredths is num/den rounded to 2 decimals: no hundredth is nearer
NearestHundredth(h, num, den) == 2 * Abs(h * den - 100 * num) <= den

\* C11: finalizeAssistantMessage sets lastTokenAt to completedAt; exactly
\* when firstTokenAt is set and tokenCount > 0 it sets tokenRate to
\* tokenCount / max(seconds from firstTokenAt to completedAt, 0.001) rounded
\* to 2 decimals, and else tokenRate stays unset.  Two tokens, the first at
\* 0 s, finalized at 1 s give tokenRate 2.00.
C11_TokenRate ==
    [][lastCall'.op = "finalizeAssistantMessage" =>
         LET m == messages[1]
             f == messages'[1]
             completedAt == lastCall'.at
         IN /\ f.lastTokenAt = Some(completedAt)
            /\ f.tokenCount = m.tokenCount /\ f.firstTokenAt = m.firstTokenAt
            /\ IF IsSet(m.firstTokenAt) /\ IsSet(m.tokenCount) /\ Val(m.tokenCount) > 0
               THEN /\ IsSet(f.tokenRate)
                    /\ NearestHundredth(Val(f.tokenRate), Val(m.tokenCount) * 1000,
                           Max(completedAt - Val(m.firstTokenAt), 1))
                    /\ (Val(m.tokenCount) = 2 /\ Val(m.firstTokenAt) = 0
                           /\ completedAt = 1000) => Val(f.tokenRate) = 200
               ELSE f.tokenRate = Undefined]_vars

\* Two tokens from 0 s finalized at 0.3 s: 6.67 tokens a second
C11_Witness ==
    /\ lastCall = [op |-> "finalizeAssistantMessage", at |-> 300]
    /\ messages[1].tokenCount = Some(2)
    /\ messages[1].firstTokenAt = Some(0)
    /\ messages[1].tokenRate = Some(667)

----------------------------------------------------------------------------
(* Properties of the metrics aggregator, under SpecMetrics *)

\* The buffered samples recorded within the last 24 hours
WithinDay(buf) ==
    {i \in 1..Len(buf) : now - buf[i].recordedAt <= 24 * 60 * 60 * 1000}

RECURSIVE SumOver(_, _, _)
SumOver(buf, I, field) ==
    IF I = {} THEN 0
    ELSE LET i == CHOOSE j \in I : TRUE
         IN buf[i][field] + SumOver(buf, I \ {i}, field)

\* v is an integer nearest to num / den
NearestTo(v, num, den) == 2 * Abs(v * den - num) <= den

\* C14: the two means getAggregateMetrics returns are taken over exactly the
\* buffered message samples of the last 24 hours (an older sample that is
\* still buffered does not count), and both are null when there is none.
C14_WindowedMeans ==
    lastCall.op = "getAggregateMetrics" =>
        LET buf == metrics.messageMetrics
            I == WithinDay(buf)
            r == lastCall.result
        IN IF I = {}
           THEN r.avgFirstTokenLatencyMs = Undefined /\ r.avgTokensPerSec = Undefined
           ELSE /\ IsSet(r.avgFirstTokenLatencyMs)
                /\ IsSet(r.avgTokensPerSec)
                /\ NearestTo(Val(r.avgFirstTokenLatencyMs),
                             SumOver(buf, I, "firstTokenLatencyMs"), Cardinality(I))
                /\ NearestTo(Val(r.avgTokensPerSec),
                             SumOver(buf, I, "tokensPerSec"), Cardinality(I))

\* A sample of 25 hours ago and a sample of now are buffered, and the means
\* are those of the second
C14_Witness ==
    /\ lastCall.op = "getAggregateMetrics"
    /\ Len(metrics.messageMetrics) = 2
    /\ metrics.messageMetrics[1].recordedAt = now - 25 * 60 * 60 * 1000
    /\ metrics.messageMetrics[1].firstTokenLatencyMs = 100
    /\ metrics.messageMetrics[2].recordedAt = now
    /\ lastCall.result.avgFirstTokenLatencyMs = Some(201)
    /\ lastCall.result.avgTokensPerSec = Some(800)

\* C15: errorRate24h is min(E / max(M, 1), 1) to two decimals, E and M being
\* the numbers of buffered error and message samples of the last 24 hours;
\* it is within [0, 1], 0 when nothing was recorded, 0.5 for M = 2, E = 1.
C15_ErrorRate ==
    lastCall.op = "getAggregateMetrics" =>
        LET E == Cardinality(WithinDay(metrics.errorMetrics))
            M == Cardinality(WithinDay(metrics.messageMetrics))
            rate == lastCall.result.errorRate24h
        IN /\ rate \in 0..100
           /\ IF E >= Max(M, 1) THEN rate = 100
              ELSE NearestHundredth(rate, E, Max(M, 1))
           /\ metrics = NoMetrics => rate = 0
           /\ (M = 2 /\ E = 1) => rate = 50

\* Two messages and one error within the day: 0.5
C15_Witness ==
    /\ lastCall.op = "getAggregateMetrics"
    /\ Cardinality(WithinDay(metrics.messageMetrics)) = 2
    /\ Cardinality(WithinDay(metrics.errorMetrics)) = 1
    /\ lastCall.result.errorRate24h = 50

----------------------------------------------------------------------------
(* Properties of concurrent store calls, under SpecLoad *)

\* The sessions created and the tokens appended by the calls that returned
ReturnedSessions == UNION {caller[c].created : c \in LoadCallers}
ReturnedAppends == caller["c1"].appended + caller["c2"].appended

\* What a snapshot of the data holds
SessionsIn(snapshot) ==
    {snapshot.sessions[i].id : i \in 1..Len(snapshot.sessions)}
TokensIn(snapshot) ==
    IF findMessage(snapshot.messages, 1, 1) = 0 THEN 0
    ELSE LET m == snapshot.messages[findMessage(snapshot.messages, 1, 1)]
         IN IF IsSet(m.tokenCount) THEN Val(m.tokenCount) ELSE 0

Holds(snapshot) ==
    /\ ReturnedSessions \subseteq SessionsIn(snapshot)
    /\ ReturnedAppends <= TokensIn(snapshot)

\* C19: store mutations are race-free under concurrent callers, calls made
\* during the first load included: whatever a call that returned created or
\* appended is in the in-memory data and in the data file.
C19_NoLostMutation ==
    /\ Holds([sessions |-> sessions, messages |-> messages])
    /\ (ReturnedSessions # {} \/ ReturnedAppends > 0) =>
          (IsSet(file) /\ Holds(Val(file)))

\* Both calls have returned, and the session the first created is neither
\* in memory nor in the file
C19_Witness ==
    /\ \A c \in LoadCallers : caller[c].pc = "returned"
    /\ persistQueue = <<>>
    /\ \E id \in ReturnedSessions :
          /\ id \notin SessionsIn([sessions |-> sessions, messages |-> messages])
          /\ IsSet(file) /\ id \notin SessionsIn(Val(file))

----------------------------------------------------------------------------
(* Properties of streamOpenAIResponse, under SpecOpenAI *)

\* The lines received in complete blocks, up to the first [DONE] among them
CompleteBlocks ==
    LET seps == {i \in 1..Len(oa.received) : oa.received[i] = Separator}
    IN IF seps = {} THEN <<>>
       ELSE SubSeq(oa.received, 1, CHOOSE i \in seps : \A j \in seps : j <= i)
DoneLines == {i \in 1..Len(CompleteBlocks) : CompleteBlocks[i].kind = "done"}
BeforeDone ==
    IF DoneLines = {} THEN CompleteBlocks
    ELSE SubSeq(CompleteBlocks, 1, (CHOOSE i \in DoneLines : \A j \in DoneLines : i <= j) - 1)

OpenAITokens == {i \in 1..Len(oaOut) : oaOut[i].type = "assistant_token"}
UsageSeen == {i \in 1..Len(BeforeDone) : BeforeDone[i].kind = "usage"}

\* C21: once a "data: [DONE]" line has been read in a complete block, the
\* stream has ended: the tokens yielded are those of the data lines before
\* that line and of none after it, and exactly one assistant_done follows
\* them, with the usage total seen before [DONE], or else the number of
\* tokens yielded.
C21_DoneEndsStream ==
    DoneLines # {} =>
        /\ oa.phase = "finished"
        /\ Cardinality(OpenAITokens)
             = Cardinality({i \in 1..Len(BeforeDone) : BeforeDone[i].kind = "data"})
        /\ Len(oaOut) = Cardinality(OpenAITokens) + 1
        /\ oaOut[Len(oaOut)].type = "assistant_done"
        /\ oaOut[Len(oaOut)].totalTokens =
              IF UsageSeen # {}
              THEN BeforeDone[CHOOSE i \in UsageSeen : \A j \in UsageSeen : j <= i].total
              ELSE Cardinality(OpenAITokens)

\* A data line, [DONE], and a data line after it in the same block: one
\* token and assistant_done with a total of 1
C21_Witness ==
    /\ Len(oa.received) = 4
    /\ oa.received[1].kind = "data"
    /\ oa.received[2].kind = "done"
    /\ oa.received[3].kind = "data"
    /\ oa.received[4].kind = "sep"
    /\ oaOut = <<OpenAIToken(<<"x">>), OpenAIDone(1)>>

----------------------------------------------------------------------------
(* Properties of the rate limiter, under SpecLimiter *)

\* The calls before call i that succeeded under the same key less than a
\* window before it
SucceededInWindow(i) ==
    {j \in 1..(i - 1) :
        /\ rateCalls[j].key = rateCalls[i].key
        /\ rateCalls[j].ok
        /\ rateCalls[i].at - rateCalls[j].at < RATE_LIMIT_WINDOW_MIN * 60 * 1000}

\* C16: consumeRateLimit is a sliding-window limiter per key.  A call
\* succeeds exactly when fewer than RATE_LIMIT_MAX earlier calls of its own
\* key succeeded less than a window before it: rejected calls and calls of
\* other keys do not count, and successes a window old or older do not
\* count.  So no more than RATE_LIMIT_MAX calls of a key succeed within a
\* span shorter than the window.
C16_SlidingWindow ==
    /\ \A i \in 1..Len(rateCalls) :
          rateCalls[i].ok <=> Cardinality(SucceededInWindow(i)) < RATE_LIMIT_MAX
    /\ \A i \in 1..Len(rateCalls) :
          Cardinality({j \in i..Len(rateCalls) :
                          /\ rateCalls[j].key = rateCalls[i].key
                          /\ rateCalls[j].ok
                          /\ rateCalls[j].at - rateCalls[i].at
                                < RATE_LIMIT_WINDOW_MIN * 60 * 1000})
            <= RATE_LIMIT_MAX

\* A key was rejected after RATE_LIMIT_MAX successes, the other key
\* succeeded at that same time, and the first key succeeded again once the
\* window had passed
C16_Witness ==
    \E i, j, k \in 1..Len(rateCalls) :
        /\ i < j /\ i < k
        /\ ~rateCalls[i].ok
        /\ Cardinality(SucceededInWindow(i)) = RATE_LIMIT_MAX
        /\ rateCalls[j].key # rateCalls[i].key
        /\ rateCalls[j].at = rateCalls[i].at
        /\ rateCalls[j].ok
        /\ rateCalls[k].key = rateCalls[i].key
        /\ rateCalls[k].ok
        /\ rateCalls[k].at - rateCalls[i].at >= RATE_LIMIT_WINDOW_MIN * 60 * 1000

----------------------------------------------------------------------------
(* Properties of the hub, under SpecHub *)

C8_ListenerThrowContained ==
    (lastBroadcast.throwers \cap Range(lastBroadcast.delivered) # {}) =>
        /\ lastBroadcast.outcome = "returned"
        /\ Targets(lastBroadcast.sessionId) \subseteq Range(lastBroadcast.delivered)

\* The first listener called throws; a socket before it and a listener
\* after it are handed the event
C8_Witness ==
    \E k \in Sockets, l1 \in Listeners, l2 \in Listeners :
        /\ l1 # l2
        /\ lastBroadcast.throwers = {l1}
        /\ lastBroadcast.delivered = <<k, l1, l2>>
        /\ lastBroadcast.outcome = "returned"

----------------------------------------------------------------------------
(* Properties of the completion source adapter, under SpecAdapter *)

\* C2: every sequence streamAgentCompletion produces contains exactly one
\* terminal event (assistant_done or error), and it is the last event: at
\* no point has a terminal event been followed by another event, and a
\* generator that has finished has yielded a terminal event last.
C2_OneTerminalLast ==
    \A r \in Runs :
        /\ Terminals(emitted[r]) \subseteq {Len(emitted[r])}
        /\ gen[r].phase = "finished" => Terminals(emitted[r]) = {Len(emitted[r])}

\* C4: with an upstream configured whose fetch raises, the first event is
\* degraded, nothing but token events follow it until one assistant_done,
\* which carries the number of those tokens and ends the stream; at least
\* one token event follows the degraded event.
C4_DegradedThenFallback ==
    \A r \in Runs :
        gen[r].fetch = "raised" =>
            LET E == emitted[r] IN
            /\ E # <<>> /\ E[1].type = "degraded"
            /\ \A i \in 2..Len(E) :
                  \/ E[i].type = "assistant_token"
                  \/ /\ E[i].type = "assistant_done"
                     /\ i = Len(E) /\ i > 2
                     /\ E[i].total = i - 2
            /\ gen[r].phase = "finished" => E[Len(E)].type = "assistant_done"

C4_Witness ==
    \E r \in Runs :
        /\ agentUrl /\ gen[r].fetch = "raised" /\ gen[r].phase = "finished"
        /\ Len(emitted[r]) > 2

\* C20: a malformed line of the agent service's stream is skipped: the
\* stream does not switch to the fallback path because of it (no degraded
\* event is yielded, the generator goes on reading the response).
C20_MalformedSkipped ==
    \A r \in Runs :
        gen[r].malformed =>
            /\ gen[r].phase \notin {"fallback", "fallbackDone"}
            /\ \A i \in 1..Len(emitted[r]) : emitted[r][i].type # "degraded"

\* A token of the response was yielded, then a malformed line was read, and
\* the generator finished on the fallback path
C20_Witness ==
    \E r \in Runs :
        /\ gen[r].malformed /\ gen[r].fetch = "ok" /\ gen[r].phase = "finished"
        /\ Len(emitted[r]) > 3
        /\ emitted[r][1].type = "assistant_token"
        /\ emitted[r][2].type = "degraded"
        /\ emitted[r][Len(emitted[r])].type = "assistant_done"

\* C5: with no upstream configured the primary path is never attempted and
\* no degraded event is yielded: the sequence is one or more token events,
\* then one assistant_done that ends it.
C5_FallbackOnly ==
    ~agentUrl =>
        \A r \in Runs :
            LET E == emitted[r] IN
            /\ gen[r].fetch = "none"
            /\ gen[r].phase \in {"start", "fallback", "fallbackDone", "finished"}
            /\ \A i \in 1..Len(E) :
                  \/ E[i].type = "assistant_token"
                  \/ E[i].type = "assistant_done" /\ i = Len(E) /\ i > 1
            /\ gen[r].phase = "finished" =>
                  E # <<>> /\ E[Len(E)].type = "assistant_done"

C5_Witness ==
    /\ ~agentUrl
    /\ \E r \in Runs :
          /\ gen[r].phase = "finished"
          /\ Len(emitted[r]) > 1
          /\ emitted[r][Len(emitted[r])].type = "assistant_done"

====
